---- MODULE Spec2Model ----
(***************************************************************************)
(* A model of the two event deserializers of kloppy:                       *)
(*   StatsPerformDeserializer.deserialize                                  *)
(*       (kloppy/infra/serializers/event/statsperform/deserializer.py)     *)
(*   UefaDeserializer.deserialize                                          *)
(*       (kloppy/infra/serializers/event/uefa/deserializer.py)             *)
(* Each is a fold over a list of raw records that carries a list of        *)
(* periods and a possession value, builds one canonical event per retained *)
(* record and appends it to the output.                                    *)
(*                                                                         *)
(* Python values.  An optional value is a sequence of length at most one:  *)
(* None is <<>> and a present value v is <<v>>.  A raised exception is the *)
(* name of its class.  A float is an IEEE-754 double (see Doubles below).  *)
(***************************************************************************)
EXTENDS Integers, Sequences, FiniteSets, TLC

None == <<>>
Some(v) == <<v>>

NoError == ""

(***************************************************************************)
(* Doubles.  float(...) yields IEEE-754 doubles and `100 - x` is a double  *)
(* subtraction, rounded to 53 significant bits, ties to even.  A double in *)
(* [0, 128) that is a multiple of 2^-56 is the triple <<i, a, b>> of value *)
(* (i * 2^56 + a * 2^28 + b) * 2^-56 with 0 <= a, b < 2^28 (three limbs,   *)
(* because TLC's integers are 32 bits wide).                               *)
(***************************************************************************)
Limb == 2^28

\* The exact difference a - b of two limb triples, for a >= b.
LimbSub(a, b) ==
    LET borrow1 == IF b[3] > a[3] THEN 1 ELSE 0
        borrow2 == IF b[2] + borrow1 > a[2] THEN 1 ELSE 0
    IN  << a[1] - b[1] - borrow2,
           (a[2] - b[2] - borrow1 + Limb) % Limb,
           (a[3] - b[3] + Limb) % Limb >>

\* How many low bits of the 2^-56 grid a double of this magnitude cannot
\* hold: its unit in the last place is 2^(e - 52) for a value in [2^e, 2^(e+1)).
DropBits(d) ==
    IF d[1] >= 64 THEN 10
    ELSE IF d[1] >= 32 THEN 9
    ELSE IF d[1] >= 16 THEN 8
    ELSE IF d[1] >= 8 THEN 7
    ELSE IF d[1] >= 4 THEN 6
    ELSE IF d[1] >= 2 THEN 5
    ELSE IF d[1] >= 1 THEN 4
    ELSE IF d[2] >= 2^27 THEN 3
    ELSE IF d[2] >= 2^26 THEN 2
    ELSE IF d[2] >= 2^25 THEN 1
    ELSE 0

\* Round an exact value to the nearest double, ties to even.
RoundToDouble(d) ==
    LET p    == 2^DropBits(d)
        r    == d[3] % p
        base == d[3] - r
        up   == (2 * r > p) \/ (2 * r = p /\ (base \div p) % 2 = 1)
        nb   == IF up THEN base + p ELSE base
        c1   == IF nb >= Limb THEN 1 ELSE 0
        na   == d[2] + c1
        c2   == IF na >= Limb THEN 1 ELSE 0
    IN  << d[1] + c2, na % Limb, nb % Limb >>

\* Python's a - b on floats, for a >= b >= 0.
FloatSub(a, b) == RoundToDouble(LimbSub(a, b))

\* The double of an int n (exact for 0 <= n < 128).
FloatOfInt(n) == << n, 0, 0 >>

\* The decimal strings the feeds of this model carry as coordinates.
CoordStrings == {"0.1", "10", "50", "50.3", "90"}

\* float(s) for a decimal string s: the double nearest to the decimal.
\*   float("0.1")  = 0x1.999999999999ap-4,  float("50.3") = 0x1.9266666666666p+5
float(s) ==
    CASE s = "0.1"  -> << 0, 26843545, 161061274 >>
      [] s = "10"   -> << 10, 0, 0 >>
      [] s = "50"   -> << 50, 0, 0 >>
      [] s = "50.3" -> << 50, 80530636, 214748160 >>
      [] s = "90"   -> << 90, 0, 0 >>

Point(x, y) == [x |-> x, y |-> y]

(***************************************************************************)
(* Date strings.  A date string is kept as the parts the two accepted      *)
(* formats tell apart: the separator between date and time, the time in    *)
(* whole seconds, the optional fraction (in microseconds) and the number   *)
(* of "Z" the string ends with.                                            *)
(***************************************************************************)
DateStr(sep, s, frac, z) == [sep |-> sep, s |-> s, frac |-> frac, z |-> z]

\* try_parsing_date: [err, v]; v is the datetime in microseconds.
try_parsing_date(dt_str) ==
    IF dt_str.sep = "T" /\ dt_str.z = 1 /\ dt_str.frac = None
    THEN [err |-> NoError, v |-> dt_str.s * 1000000]
    ELSE IF dt_str.sep = "T" /\ dt_str.z = 1 /\ dt_str.frac # None
    THEN [err |-> NoError, v |-> dt_str.s * 1000000 + dt_str.frac[1]]
    ELSE [err |-> "ValueError", v |-> 0]

\* str.replace(" ", "T") on a date string.
ReplaceSpaceByT(dt_str) == [dt_str EXCEPT !.sep = IF @ = " " THEN "T" ELSE @]

\* dt_str + "Z".
AppendZ(dt_str) == [dt_str EXCEPT !.z = @ + 1]

(***************************************************************************)
(* StatsPerform: constants of the provider's schema.                       *)
(***************************************************************************)
EVENT_TYPE_START_PERIOD == 32
EVENT_TYPE_END_PERIOD == 30
EVENT_TYPE_PASS == 1
EVENT_TYPE_OFFSIDE_PASS == 2
EVENT_TYPE_TAKE_ON == 3
EVENT_TYPE_SHOT_MISS == 13
EVENT_TYPE_SHOT_POST == 14
EVENT_TYPE_SHOT_SAVED == 15
EVENT_TYPE_SHOT_GOAL == 16
EVENT_TYPE_BALL_OUT == 5
EVENT_TYPE_CORNER_AWARDED == 6
EVENT_TYPE_FOUL_COMMITTED == 4
EVENT_TYPE_CARD == 17
EVENT_TYPE_RECOVERY == 49
EVENT_TYPE_FORMATION_CHANGE == 40

BALL_OUT_EVENTS == {EVENT_TYPE_BALL_OUT, EVENT_TYPE_CORNER_AWARDED}

BALL_OWNING_EVENTS ==
    { EVENT_TYPE_PASS, EVENT_TYPE_OFFSIDE_PASS, EVENT_TYPE_TAKE_ON,
      EVENT_TYPE_SHOT_MISS, EVENT_TYPE_SHOT_POST, EVENT_TYPE_SHOT_SAVED,
      EVENT_TYPE_SHOT_GOAL, EVENT_TYPE_RECOVERY }

EVENT_QUALIFIER_GOAL_KICK == 124
EVENT_QUALIFIER_FREE_KICK == 5
EVENT_QUALIFIER_THROW_IN == 107
EVENT_QUALIFIER_CORNER_KICK == 6
EVENT_QUALIFIER_PENALTY == 9
EVENT_QUALIFIER_KICK_OFF == 279
EVENT_QUALIFIER_FREE_KICK_SHOT == 26

EVENT_QUALIFIER_HEAD_PASS == 3
EVENT_QUALIFIER_HEAD == 15
EVENT_QUALIFIER_LEFT_FOOT == 72
EVENT_QUALIFIER_RIGHT_FOOT == 20
EVENT_QUALIFIER_OTHER_BODYPART == 21

EVENT_QUALIFIER_LONG_BALL == 1
EVENT_QUALIFIER_CROSS == 2
EVENT_QUALIFIER_THROUGH_BALL == 4
EVENT_QUALIFIER_CHIPPED_BALL == 155
EVENT_QUALIFIER_LAUNCH == 157
EVENT_QUALIFIER_FLICK_ON == 168
EVENT_QUALIFIER_ASSIST == 210
EVENT_QUALIFIER_ASSIST_2ND == 218

EVENT_QUALIFIER_FIRST_YELLOW_CARD == 31
EVENT_QUALIFIER_SECOND_YELLOW_CARD == 32
EVENT_QUALIFIER_RED_CARD == 33

EVENT_QUALIFIER_TEAM_FORMATION == 130

\* The raw qualifier slots the builders read by number.
QUALIFIER_PASS_END_X == 140
QUALIFIER_PASS_END_Y == 141
QUALIFIER_OWN_GOAL == 28
QUALIFIER_GOAL_TIME == 374

\* event_type_names: the name of each of the codes 1..77, by code.
event_type_names ==
    << "pass", "offside pass", "take on", "foul", "out", "corner awarded",
       "tackle", "interception", "turnover", "save", "claim", "clearance",
       "miss", "post", "attempt saved", "goal", "card", "player off",
       "player on", "player retired", "player returns",
       "player becomes goalkeeper", "goalkeeper becomes player",
       "condition change", "official change", "unknown26", "start delay",
       "end delay", "unknown29", "end", "unknown31", "start", "unknown33",
       "team set up", "player changed position",
       "player changed jersey number", "collection end", "temp_goal",
       "temp_attempt", "formation change", "punch", "good skill",
       "deleted event", "aerial", "challenge", "unknown46",
       "rescinded card", "unknown46", "ball recovery", "dispossessed",
       "error", "keeper pick-up", "cross not claimed", "smother",
       "offside provoked", "shield ball opp", "foul throw in",
       "penalty faced", "keeper sweeper", "chance missed", "ball touch",
       "unknown62", "temp_save", "resume", "contentious referee decision",
       "possession data", "50/50", "referee drop ball", "failed to block",
       "injury time announcement", "coach setup", "caught offside",
       "other ball contact", "blocked pass", "delayed start", "early end",
       "player off pitch" >>

\* formations_num: the formation of each of the codes 2..25; the entry at
\* position i is that of code i + 1.
formations_num_values ==
    << "FOUR_FOUR_TWO", "FOUR_ONE_TWO_ONE_TWO", "FOUR_THREE_THREE",
       "FOUR_FIVE_ONE", "FOUR_FOUR_ONE_ONE", "FOUR_ONE_FOUR_ONE",
       "FOUR_TWO_THREE_ONE", "FOUR_THREE_TWO_ONE", "FIVE_THREE_TWO",
       "FIVE_FOUR_ONE", "THREE_FIVE_TWO", "THREE_FOUR_THREE",
       "THREE_ONE_THREE_ONE_TWO", "FOUR_TWO_TWO_TWO", "THREE_FIVE_ONE_ONE",
       "THREE_FOUR_TWO_ONE", "THREE_FOUR_ONE_TWO", "THREE_ONE_FOUR_TWO",
       "THREE_ONE_TWO_ONE_THREE", "FOUR_ONE_THREE_TWO",
       "FOUR_TWO_FOUR_ZERO", "FOUR_THREE_ONE_TWO", "THREE_TWO_FOUR_ONE",
       "THREE_THREE_THREE_ONE" >>

formations_num_keys == {i + 1 : i \in 1..Len(formations_num_values)}

(***************************************************************************)
(* Python objects.  A canonical qualifier is an object of a Qualifier      *)
(* class holding an enum value; an int is an object of class int.  Two     *)
(* objects of different classes are never equal.                           *)
(***************************************************************************)
PyObj(class, value) == [py |-> class, value |-> value]
PyInt(n) == PyObj("int", n)
PyEq(a, b) == a.py = b.py /\ a.value = b.value

\* Python's `x in list`.
PyInList(x, list) == \E i \in 1..Len(list) : PyEq(x, list[i])

\* Python's `key in dict`; a dict is a function over its keys.
InDict(key, dict) == key \in DOMAIN dict

SetPieceQualifier(value) == PyObj("SetPieceQualifier", value)
BodyPartQualifier(value) == PyObj("BodyPartQualifier", value)
PassQualifier(value) == PyObj("PassQualifier", value)
CardQualifier(value) == PyObj("CardQualifier", value)

(***************************************************************************)
(* The qualifier mapper: four chains of if / elif.                         *)
(***************************************************************************)
\* _get_event_pass_qualifiers with the long ball tested before the cross.
_get_event_pass_qualifiers_long_ball_first(raw_qualifiers) ==
    IF InDict(EVENT_QUALIFIER_LONG_BALL, raw_qualifiers)
    THEN << PassQualifier("LONG_BALL") >>
    ELSE IF InDict(EVENT_QUALIFIER_CROSS, raw_qualifiers)
    THEN << PassQualifier("CROSS") >>
    ELSE IF InDict(EVENT_QUALIFIER_CHIPPED_BALL, raw_qualifiers)
    THEN << PassQualifier("CHIPPED_PASS") >>
    ELSE IF InDict(EVENT_QUALIFIER_THROUGH_BALL, raw_qualifiers)
    THEN << PassQualifier("THROUGH_BALL") >>
    ELSE IF InDict(EVENT_QUALIFIER_LAUNCH, raw_qualifiers)
    THEN << PassQualifier("LAUNCH") >>
    ELSE IF InDict(EVENT_QUALIFIER_FLICK_ON, raw_qualifiers)
    THEN << PassQualifier("FLICK_ON") >>
    ELSE IF InDict(EVENT_QUALIFIER_ASSIST, raw_qualifiers)
    THEN << PassQualifier("ASSIST") >>
    ELSE IF InDict(EVENT_QUALIFIER_ASSIST_2ND, raw_qualifiers)
    THEN << PassQualifier("ASSIST_2ND") >>
    ELSE << >>

_get_event_pass_qualifiers(raw_qualifiers) ==
    IF InDict(EVENT_QUALIFIER_CROSS, raw_qualifiers)
    THEN << PassQualifier("CROSS") >>
    ELSE IF InDict(EVENT_QUALIFIER_LONG_BALL, raw_qualifiers)
    THEN << PassQualifier("LONG_BALL") >>
    ELSE IF InDict(EVENT_QUALIFIER_CHIPPED_BALL, raw_qualifiers)
    THEN << PassQualifier("CHIPPED_PASS") >>
    ELSE IF InDict(EVENT_QUALIFIER_THROUGH_BALL, raw_qualifiers)
    THEN << PassQualifier("THROUGH_BALL") >>
    ELSE IF InDict(EVENT_QUALIFIER_LAUNCH, raw_qualifiers)
    THEN << PassQualifier("LAUNCH") >>
    ELSE IF InDict(EVENT_QUALIFIER_FLICK_ON, raw_qualifiers)
    THEN << PassQualifier("FLICK_ON") >>
    ELSE IF InDict(EVENT_QUALIFIER_ASSIST, raw_qualifiers)
    THEN << PassQualifier("ASSIST") >>
    ELSE IF InDict(EVENT_QUALIFIER_ASSIST_2ND, raw_qualifiers)
    THEN << PassQualifier("ASSIST_2ND") >>
    ELSE << >>

_get_event_setpiece_qualifiers(raw_qualifiers) ==
    IF InDict(EVENT_QUALIFIER_CORNER_KICK, raw_qualifiers)
    THEN << SetPieceQualifier("CORNER_KICK") >>
    ELSE IF \/ InDict(EVENT_QUALIFIER_FREE_KICK, raw_qualifiers)
            \/ InDict(EVENT_QUALIFIER_FREE_KICK_SHOT, raw_qualifiers)
    THEN << SetPieceQualifier("FREE_KICK") >>
    ELSE IF InDict(EVENT_QUALIFIER_PENALTY, raw_qualifiers)
    THEN << SetPieceQualifier("PENALTY") >>
    ELSE IF InDict(EVENT_QUALIFIER_THROW_IN, raw_qualifiers)
    THEN << SetPieceQualifier("THROW_IN") >>
    ELSE IF InDict(EVENT_QUALIFIER_KICK_OFF, raw_qualifiers)
    THEN << SetPieceQualifier("KICK_OFF") >>
    ELSE IF InDict(EVENT_QUALIFIER_GOAL_KICK, raw_qualifiers)
    THEN << SetPieceQualifier("GOAL_KICK") >>
    ELSE << >>

_get_event_bodypart_qualifiers(raw_qualifiers) ==
    IF InDict(EVENT_QUALIFIER_HEAD_PASS, raw_qualifiers)
    THEN << BodyPartQualifier("HEAD") >>
    ELSE IF InDict(EVENT_QUALIFIER_HEAD, raw_qualifiers)
    THEN << BodyPartQualifier("HEAD") >>
    ELSE IF InDict(EVENT_QUALIFIER_LEFT_FOOT, raw_qualifiers)
    THEN << BodyPartQualifier("LEFT_FOOT") >>
    ELSE IF InDict(EVENT_QUALIFIER_RIGHT_FOOT, raw_qualifiers)
    THEN << BodyPartQualifier("RIGHT_FOOT") >>
    ELSE IF InDict(EVENT_QUALIFIER_OTHER_BODYPART, raw_qualifiers)
    THEN << BodyPartQualifier("OTHER") >>
    ELSE << >>

_get_event_card_qualifiers(raw_qualifiers) ==
    IF InDict(EVENT_QUALIFIER_RED_CARD, raw_qualifiers)
    THEN << CardQualifier("RED") >>
    ELSE IF InDict(EVENT_QUALIFIER_FIRST_YELLOW_CARD, raw_qualifiers)
    THEN << CardQualifier("FIRST_YELLOW") >>
    ELSE IF InDict(EVENT_QUALIFIER_SECOND_YELLOW_CARD, raw_qualifiers)
    THEN << CardQualifier("SECOND_YELLOW") >>
    ELSE << >>

_get_event_qualifiers(raw_qualifiers) ==
    _get_event_setpiece_qualifiers(raw_qualifiers)
        \o _get_event_bodypart_qualifiers(raw_qualifiers)
        \o _get_event_pass_qualifiers(raw_qualifiers)
        \o _get_event_card_qualifiers(raw_qualifiers)

\* _get_event_type_name that finds no code in the table.
_get_event_type_name_never_found(type_id) == "unknown"

\* event_type_names.get(type_id, "unknown")
_get_event_type_name(type_id) ==
    IF type_id \in DOMAIN event_type_names
    THEN event_type_names[type_id]
    ELSE "unknown"

(***************************************************************************)
(* StatsPerform: the builders.  Each returns [err, kw]: the exception it   *)
(* raises (NoError when none) and the keyword arguments it returns.        *)
(***************************************************************************)
\* float(raw_qualifiers[code]): KeyError for a missing key, TypeError for a
\* qualifier without a value (None).
FloatOfQualifier(raw_qualifiers, code) ==
    IF ~InDict(code, raw_qualifiers)
    THEN [err |-> "KeyError", v |-> FloatOfInt(0)]
    ELSE IF raw_qualifiers[code] = None
    THEN [err |-> "TypeError", v |-> FloatOfInt(0)]
    ELSE [err |-> NoError, v |-> float(raw_qualifiers[code][1])]

\* Point(x=float(raw_qualifiers[140]), y=float(raw_qualifiers[141]))
ReceiverPoint(raw_qualifiers) ==
    LET x == FloatOfQualifier(raw_qualifiers, QUALIFIER_PASS_END_X)
        y == FloatOfQualifier(raw_qualifiers, QUALIFIER_PASS_END_Y)
    IN  IF x.err # NoError THEN [err |-> x.err, v |-> None]
        ELSE IF y.err # NoError THEN [err |-> y.err, v |-> None]
        ELSE [err |-> NoError, v |-> Some(Point(x.v, y.v))]

NoKwargs ==
    [ result |-> None, qualifiers |-> None, receiver_coordinates |-> None,
      card_type |-> None, formation_type |-> None, event_name |-> None ]

\* _parse_pass with no receiver coordinates for an incomplete pass.
_parse_pass_no_receiver(raw_qualifiers, outcome) ==
    LET receiver_coordinates == ReceiverPoint(raw_qualifiers)
        result == IF outcome # 0 THEN "COMPLETE" ELSE "INCOMPLETE"
    IN  IF outcome # 0 /\ receiver_coordinates.err # NoError
        THEN [err |-> receiver_coordinates.err, kw |-> NoKwargs]
        ELSE [err |-> NoError,
              kw |-> [NoKwargs EXCEPT
                        !.result = Some(result),
                        !.receiver_coordinates =
                            IF outcome # 0 THEN receiver_coordinates.v ELSE None,
                        !.qualifiers = Some(_get_event_qualifiers(raw_qualifiers))]]

_parse_pass(raw_qualifiers, outcome) ==
    LET receiver_coordinates == ReceiverPoint(raw_qualifiers)
        result == IF outcome # 0 THEN "COMPLETE" ELSE "INCOMPLETE"
    IN  IF receiver_coordinates.err # NoError
        THEN [err |-> receiver_coordinates.err, kw |-> NoKwargs]
        ELSE [err |-> NoError,
              kw |-> [NoKwargs EXCEPT
                        !.result = Some(result),
                        !.receiver_coordinates = receiver_coordinates.v,
                        !.qualifiers = Some(_get_event_qualifiers(raw_qualifiers))]]

_parse_offside_pass(raw_qualifiers) ==
    LET receiver_coordinates == ReceiverPoint(raw_qualifiers)
    IN  IF receiver_coordinates.err # NoError
        THEN [err |-> receiver_coordinates.err, kw |-> NoKwargs]
        ELSE [err |-> NoError,
              kw |-> [NoKwargs EXCEPT
                        !.result = Some("OFFSIDE"),
                        !.receiver_coordinates = receiver_coordinates.v,
                        !.qualifiers = Some(_get_event_qualifiers(raw_qualifiers))]]

_parse_take_on(outcome) ==
    [err |-> NoError,
     kw |-> [NoKwargs EXCEPT
               !.result = Some(IF outcome # 0 THEN "COMPLETE" ELSE "INCOMPLETE")]]

\* The membership tests are made on `qualifiers`, the list of canonical
\* qualifier objects, with an int on the left.
\* _parse_card that builds the card with no list of qualifiers.
_parse_card_without_qualifiers(raw_qualifiers) ==
    [err |-> NoError, kw |-> NoKwargs]

_parse_card(raw_qualifiers) ==
    LET qualifiers == _get_event_qualifiers(raw_qualifiers)
        card_type ==
            IF PyInList(PyInt(EVENT_QUALIFIER_RED_CARD), qualifiers)
            THEN Some("RED")
            ELSE IF PyInList(PyInt(EVENT_QUALIFIER_FIRST_YELLOW_CARD), qualifiers)
            THEN Some("FIRST_YELLOW")
            ELSE IF PyInList(PyInt(EVENT_QUALIFIER_SECOND_YELLOW_CARD), qualifiers)
            THEN Some("SECOND_YELLOW")
            ELSE None
    IN  [err |-> NoError,
         kw |-> [NoKwargs EXCEPT !.qualifiers = Some(qualifiers),
                                 !.card_type = card_type]]

\* int(raw_qualifiers[130]) and formations_num[formation_id]; the value of
\* qualifier 130 is kept as the int its string denotes.
_parse_formation_change(raw_qualifiers) ==
    IF ~InDict(EVENT_QUALIFIER_TEAM_FORMATION, raw_qualifiers)
    THEN [err |-> "KeyError", kw |-> NoKwargs]
    ELSE IF raw_qualifiers[EVENT_QUALIFIER_TEAM_FORMATION] = None
    THEN [err |-> "TypeError", kw |-> NoKwargs]
    ELSE LET formation_id == raw_qualifiers[EVENT_QUALIFIER_TEAM_FORMATION][1]
         IN  IF formation_id \notin formations_num_keys
             THEN [err |-> "KeyError", kw |-> NoKwargs]
             ELSE [err |-> NoError,
                   kw |-> [NoKwargs EXCEPT !.formation_type =
                             Some(formations_num_values[formation_id - 1])]]

\* _parse_shot with only x mirrored for an own goal.
_parse_shot_mirror_x_only(raw_qualifiers, type_id, coordinates) ==
    LET own_goal == type_id = EVENT_TYPE_SHOT_GOAL
                        /\ InDict(QUALIFIER_OWN_GOAL, raw_qualifiers)
    IN  [ coordinates |->
              IF own_goal
              THEN Point(FloatSub(FloatOfInt(100), coordinates.x), coordinates.y)
              ELSE coordinates,
          result |->
              IF type_id = EVENT_TYPE_SHOT_GOAL
              THEN (IF own_goal THEN Some("OWN_GOAL") ELSE Some("GOAL"))
              ELSE None,
          qualifiers |-> Some(_get_event_qualifiers(raw_qualifiers)) ]

\* [coordinates, result, qualifiers]
_parse_shot(raw_qualifiers, type_id, coordinates) ==
    LET own_goal == type_id = EVENT_TYPE_SHOT_GOAL
                        /\ InDict(QUALIFIER_OWN_GOAL, raw_qualifiers)
    IN  [ coordinates |->
              IF own_goal
              THEN Point(FloatSub(FloatOfInt(100), coordinates.x),
                         FloatSub(FloatOfInt(100), coordinates.y))
              ELSE coordinates,
          result |->
              IF type_id = EVENT_TYPE_SHOT_GOAL
              THEN (IF own_goal THEN Some("OWN_GOAL") ELSE Some("GOAL"))
              ELSE None,
          qualifiers |-> Some(_get_event_qualifiers(raw_qualifiers)) ]

\* The corrected time of a goal: try_parsing_date(
\*     raw_qualifiers.get(374).replace(" ", "T") + "Z")
GoalTime(raw_qualifiers) ==
    IF raw_qualifiers[QUALIFIER_GOAL_TIME] = None
    THEN [err |-> "AttributeError", v |-> 0]
    ELSE try_parsing_date(
             AppendZ(ReplaceSpaceByT(raw_qualifiers[QUALIFIER_GOAL_TIME][1])))

(***************************************************************************)
(* State.                                                                  *)
(*   sp_*    one call of StatsPerformDeserializer.deserialize              *)
(*   uefa_*  one call of UefaDeserializer.deserialize                      *)
(*   fn_*    one application of the qualifier mapper to a raw mapping      *)
(***************************************************************************)
VARIABLES
    sp_pc,               \* "start", "loop", "done" (returned) or "raised"
    sp_error,            \* the exception that ended the call, or NoError
    sp_metadata,         \* metadata["liveData"]["matchDetails"]["period"]
    sp_feed,             \* the records of eventdata the loop has taken
    sp_periods,          \* periods
    sp_possession_team,  \* possession_team
    sp_events,           \* events
    uefa_pc,             \* "start", "loop", "done" (returned) or "raised"
    uefa_error,          \* the exception that ended the call, or NoError
    uefa_data,           \* event_data, as loaded
    uefa_idx,            \* records of event_data[::-1] taken so far
    uefa_periods,        \* periods
    uefa_possession_team,\* possession_team, as the last iteration left it
    uefa_events,         \* events
    fn_pc,               \* "input" or "output"
    fn_raw_qualifiers,   \* the argument of _get_event_qualifiers
    fn_qualifiers        \* its result

sp_vars == << sp_pc, sp_error, sp_metadata, sp_feed, sp_periods,
              sp_possession_team, sp_events >>
uefa_vars == << uefa_pc, uefa_error, uefa_data, uefa_idx, uefa_periods,
                uefa_possession_team, uefa_events >>
fn_vars == << fn_pc, fn_raw_qualifiers, fn_qualifiers >>
vars == << sp_vars, uefa_vars, fn_vars >>

Period(id, start_timestamp, end_timestamp) ==
    [id |-> id, start_timestamp |-> start_timestamp,
     end_timestamp |-> end_timestamp]

(***************************************************************************)
(* StatsPerform: deserialize.                                              *)
(***************************************************************************)
\* home_team.team_id and away_team.team_id, and teams = [home_team, away_team]
home_team_id == "id_home"
away_team_id == "id_away"
teams == << "HOME", "AWAY" >>

\* The periods of the metadata, one after the other; the first date string
\* that does not parse ends the call.
RECURSIVE ParsePeriods(_)
ParsePeriods(pers) ==
    IF pers = << >> THEN [err |-> NoError, periods |-> << >>]
    ELSE LET per   == Head(pers)
             start == try_parsing_date(per.start)
             end   == try_parsing_date(per.end)
             rest  == ParsePeriods(Tail(pers))
         IN  IF start.err # NoError THEN [err |-> start.err, periods |-> << >>]
             ELSE IF end.err # NoError THEN [err |-> end.err, periods |-> << >>]
             ELSE IF rest.err # NoError THEN rest
             ELSE [err |-> NoError,
                   periods |-> << Period(per.id, Some(start.v), Some(end.v)) >>
                                   \o rest.periods]

\* FindPeriod without the else of the for: after a loop without a break,
\* period is the last period of the list.
FindPeriod_without_else(periods, period_id) ==
    LET found == {i \in 1..Len(periods) : periods[i].id = period_id}
    IN  IF found = {} THEN Len(periods)
        ELSE CHOOSE i \in found : \A j \in found : i <= j

\* for period in periods: if period.id == period_id: break
\* The position of the period found, 0 when the loop ends without a break.
FindPeriod(periods, period_id) ==
    LET found == {i \in 1..Len(periods) : periods[i].id = period_id}
    IN  IF found = {} THEN 0
        ELSE CHOOSE i \in found : \A j \in found : i <= j

\* self.should_include_event(event): the verdict of the inclusion predicate
\* on the event built from this record; the record carries it.
should_include_event(event_data, event) == event_data.include

\* transformer.transform_event(event): the coordinates of the event in the
\* target coordinate system; the other fields as they are.
Transformed(point) == IF point = None THEN None ELSE Some([source |-> point[1]])
transform_event(event) ==
    [event EXCEPT !.coordinates = Transformed(@),
                  !.receiver_coordinates = Transformed(@)]

\* AppendIncluded with the event put in front of the output.
AppendIncluded_front(events, event_data, event) ==
    IF should_include_event(event_data, event)
    THEN << transform_event(event) >> \o events
    ELSE events

\* AppendIncluded with the verdict of the inclusion predicate ignored.
AppendIncluded_always(events, event_data, event) ==
    Append(events, transform_event(event))

\* if self.should_include_event(event):
\*     events.append(transformer.transform_event(event))
AppendIncluded(events, event_data, event) ==
    IF should_include_event(event_data, event)
    THEN Append(events, transform_event(event))
    ELSE events

\* UpdatePossession that leaves the possession value as it was.
UpdatePossession_kept(possession_team, type_id, team) == possession_team

\* UpdatePossession with the value dropped by an event of another type.
UpdatePossession_reset(possession_team, type_id, team) ==
    IF type_id \in BALL_OWNING_EVENTS THEN Some(team) ELSE None

\* The possession tracker.
UpdatePossession(possession_team, type_id, team) ==
    IF type_id \in BALL_OWNING_EVENTS THEN Some(team) ELSE possession_team

\* timestamp - period.start_timestamp
RelativeTimestamp(timestamp, period) == timestamp - period.start_timestamp[1]

\* HasGoalTime with the correction applied to a shot of any type.
HasGoalTime_any_shot(type_id, raw_qualifiers) ==
    /\ type_id \in {EVENT_TYPE_SHOT_MISS, EVENT_TYPE_SHOT_POST,
                    EVENT_TYPE_SHOT_SAVED, EVENT_TYPE_SHOT_GOAL}
    /\ InDict(QUALIFIER_GOAL_TIME, raw_qualifiers)

\* Whether the goal-time correction applies to this record.
HasGoalTime(type_id, raw_qualifiers) ==
    type_id = EVENT_TYPE_SHOT_GOAL /\ InDict(QUALIFIER_GOAL_TIME, raw_qualifiers)

\* The kind of event the dispatch builds, by the factory method called.
EventKind(type_id) ==
    CASE type_id \in {EVENT_TYPE_PASS, EVENT_TYPE_OFFSIDE_PASS} -> "pass"
      [] type_id = EVENT_TYPE_TAKE_ON -> "take_on"
      [] type_id \in {EVENT_TYPE_SHOT_MISS, EVENT_TYPE_SHOT_POST,
                      EVENT_TYPE_SHOT_SAVED, EVENT_TYPE_SHOT_GOAL} -> "shot"
      [] type_id = EVENT_TYPE_RECOVERY -> "recovery"
      [] type_id = EVENT_TYPE_FOUL_COMMITTED -> "foul_committed"
      [] type_id \in BALL_OUT_EVENTS -> "ball_out"
      [] type_id = EVENT_TYPE_FORMATION_CHANGE -> "formation_change"
      [] type_id = EVENT_TYPE_CARD -> "card"
      [] OTHER -> "generic"

\* BallState with the card left ALIVE.
BallState_card_alive(type_id) ==
    IF type_id \in BALL_OUT_EVENTS THEN "DEAD" ELSE "ALIVE"

\* The ball state of the event: the builders of ball out and card set DEAD.
BallState(type_id) ==
    IF type_id \in BALL_OUT_EVENTS \/ type_id = EVENT_TYPE_CARD
    THEN "DEAD" ELSE "ALIVE"

\* The dispatch on type_id: [err, event].
BuildEvent(event_data, type_id, timestamp, period_idx, period, team, possession_team) ==
    LET raw_qualifiers == event_data.qualifier
        outcome == event_data.outcome
        generic_event_kwargs ==
            [ kind |-> EventKind(type_id),
              period |-> period_idx,
              timestamp |-> RelativeTimestamp(timestamp, period),
              ball_owning_team |-> possession_team,
              ball_state |-> BallState(type_id),
              event_id |-> event_data.id,
              team |-> team,
              coordinates |-> Some(Point(float(event_data.x), float(event_data.y))) ]
        goal_time == IF HasGoalTime(type_id, raw_qualifiers)
                     THEN GoalTime(raw_qualifiers)
                     ELSE [err |-> NoError, v |-> timestamp]
        shot == _parse_shot(raw_qualifiers, type_id,
                            generic_event_kwargs.coordinates[1])
        built ==
            CASE type_id = EVENT_TYPE_PASS -> _parse_pass(raw_qualifiers, outcome)
              [] type_id = EVENT_TYPE_OFFSIDE_PASS -> _parse_offside_pass(raw_qualifiers)
              [] type_id = EVENT_TYPE_TAKE_ON -> _parse_take_on(outcome)
              [] type_id = EVENT_TYPE_FORMATION_CHANGE ->
                     _parse_formation_change(raw_qualifiers)
              [] type_id = EVENT_TYPE_CARD -> _parse_card(raw_qualifiers)
              [] EventKind(type_id) = "shot" ->
                     [err |-> goal_time.err,
                      kw |-> [NoKwargs EXCEPT !.result = shot.result,
                                              !.qualifiers = shot.qualifiers]]
              [] EventKind(type_id) = "generic" ->
                     [err |-> NoError,
                      kw |-> [NoKwargs EXCEPT
                                !.event_name = Some(_get_event_type_name(type_id))]]
              [] OTHER -> [err |-> NoError, kw |-> NoKwargs]
        kwargs ==
            IF EventKind(type_id) = "shot"
            THEN [generic_event_kwargs EXCEPT
                    !.timestamp = RelativeTimestamp(goal_time.v, period),
                    !.coordinates = Some(shot.coordinates)]
            ELSE generic_event_kwargs
    IN  [err |-> built.err, event |-> kwargs @@ built.kw]

\* One iteration of `for event_data in eventdata["liveData"]["event"]`:
\* the periods, the possession value and the output after it, and the
\* exception it raised.
SPLoopBody(periods, possession_team, events, event_data) ==
    LET keep == [ periods |-> periods, possession_team |-> possession_team,
                  events |-> events, err |-> NoError ]
        type_id == event_data.typeId
        timestamp == try_parsing_date(event_data.timeStamp)
        p == FindPeriod(periods, event_data.periodId)
        team_idx == IF event_data.contestantId = home_team_id THEN 1
                    ELSE IF event_data.contestantId = away_team_id THEN 2
                    ELSE 0
    IN  IF timestamp.err # NoError THEN [keep EXCEPT !.err = timestamp.err]
        ELSE IF p = 0 THEN keep
        ELSE IF type_id = EVENT_TYPE_START_PERIOD
        THEN [keep EXCEPT !.periods[p].start_timestamp = Some(timestamp.v)]
        ELSE IF type_id = EVENT_TYPE_END_PERIOD
        THEN [keep EXCEPT !.periods[p].end_timestamp = Some(timestamp.v)]
        ELSE IF periods[p].start_timestamp = None THEN keep
        ELSE IF team_idx = 0
        THEN \* the message of the error reads event_data['team_id']
             [keep EXCEPT !.err = IF event_data.has_team_id
                                  THEN "DeserializationError" ELSE "KeyError"]
        ELSE LET team == teams[team_idx]
                 possession == UpdatePossession(possession_team, type_id, team)
                 built == BuildEvent(event_data, type_id, timestamp.v, p,
                                     periods[p], team, possession)
             IN  IF built.err # NoError
                 THEN [keep EXCEPT !.possession_team = possession,
                                   !.err = built.err]
                 ELSE [keep EXCEPT
                         !.possession_team = possession,
                         !.events = AppendIncluded(@, event_data, built.event)]

(***************************************************************************)
(* StatsPerform: the actions.  SPStart parses the metadata, SPStep is one  *)
(* iteration of the loop over the feed, SPFinish is the return.            *)
(***************************************************************************)
MaxFeed == 3


SPStart(metadatas) ==
    /\ sp_pc = "start"
    /\ \E metadata \in metadatas :
         LET parsed == ParsePeriods(metadata)
         IN  /\ sp_metadata' = metadata
             /\ sp_periods' = parsed.periods
             /\ sp_error' = parsed.err
             /\ sp_pc' = IF parsed.err = NoError THEN "loop" ELSE "raised"
    /\ UNCHANGED << sp_feed, sp_possession_team, sp_events >>
    /\ UNCHANGED << uefa_vars, fn_vars >>

\* A record of the feed gets its place in the feed as its id.
SPStep(records) ==
    /\ sp_pc = "loop"
    /\ Len(sp_feed) < MaxFeed
    /\ \E record \in records :
         LET event_data == [record EXCEPT !.id = Len(sp_feed) + 1]
             after == SPLoopBody(sp_periods, sp_possession_team, sp_events,
                                 event_data)
         IN  /\ sp_feed' = Append(sp_feed, event_data)
             /\ sp_periods' = after.periods
             /\ sp_possession_team' = after.possession_team
             /\ sp_events' = after.events
             /\ sp_error' = after.err
             /\ sp_pc' = IF after.err = NoError THEN "loop" ELSE "raised"
    /\ UNCHANGED sp_metadata
    /\ UNCHANGED << uefa_vars, fn_vars >>

SPFinish ==
    /\ sp_pc = "loop"
    /\ sp_pc' = "done"
    /\ UNCHANGED << sp_error, sp_metadata, sp_feed, sp_periods,
                    sp_possession_team, sp_events >>
    /\ UNCHANGED << uefa_vars, fn_vars >>

Init ==
    /\ sp_pc = "start"
    /\ sp_error = NoError
    /\ sp_metadata = << >>
    /\ sp_feed = << >>
    /\ sp_periods = << >>
    /\ sp_possession_team = None
    /\ sp_events = << >>
    /\ uefa_pc = "start"
    /\ uefa_error = NoError
    /\ uefa_data = << >>
    /\ uefa_idx = 0
    /\ uefa_periods = << >>
    /\ uefa_possession_team = None
    /\ uefa_events = << >>
    /\ fn_pc = "input"
    /\ fn_raw_qualifiers = << >>
    /\ fn_qualifiers = << >>

(***************************************************************************)
(* StatsPerform: the feeds of the model.                                   *)
(***************************************************************************)
\* "....T00:00:<s>Z" and "....T00:00:<s>.<micro>Z"
DateZ(s) == DateStr("T", s, None, 1)
DateFracZ(s, micro) == DateStr("T", s, Some(micro), 1)

MetadataPeriod(id, start, end) == [id |-> id, start |-> start, end |-> end]

SPRecord(typeId, periodId, timeStamp, contestantId, has_team_id, outcome, x, y, qualifier, include) ==
    [ id |-> 0, typeId |-> typeId, periodId |-> periodId,
      timeStamp |-> timeStamp, contestantId |-> contestantId,
      has_team_id |-> has_team_id, outcome |-> outcome, x |-> x, y |-> y,
      qualifier |-> qualifier, include |-> include ]

EmptyDict == << >>
PassEnd(x, y) == (QUALIFIER_PASS_END_X :> Some(x)) @@ (QUALIFIER_PASS_END_Y :> Some(y))

\* One declared period, or two.
SPMetadatas ==
    { << MetadataPeriod(1, DateZ(0), DateZ(45)) >>,
      << MetadataPeriod(1, DateZ(0), DateZ(45)),
         MetadataPeriod(2, DateZ(60), DateZ(105)) >> }

\* Markers and events of a transferring type (pass) and of a
\* non-transferring type (foul), of either period, by either team or by a
\* team that is neither, retained or not by the inclusion predicate.
SPMarkers ==
    { SPRecord(t, p, DateZ(5), home_team_id, FALSE, 1, "50", "50", EmptyDict, TRUE) :
        t \in {EVENT_TYPE_START_PERIOD, EVENT_TYPE_END_PERIOD}, p \in {1, 2} }

SPTeamEvents ==
    { SPRecord(t[1], t[2], DateZ(10), t[3], FALSE, 1, "50", "50",
               PassEnd("50", "50"), t[4]) :
        t \in {EVENT_TYPE_PASS, EVENT_TYPE_FOUL_COMMITTED} \X {1, 2}
                \X {home_team_id, away_team_id} \X BOOLEAN }

SPUnknownTeamEvents ==
    { SPRecord(EVENT_TYPE_FOUL_COMMITTED, p, DateZ(10), "id_other", k, 1,
               "50", "50", EmptyDict, TRUE) :
        p \in {1, 2}, k \in BOOLEAN }

SPRecords == SPMarkers \cup SPTeamEvents \cup SPUnknownTeamEvents

Next ==
    \/ SPStart(SPMetadatas)
    \/ SPStep(SPRecords)
    \/ SPFinish

Spec == Init /\ [][Next]_vars

(***************************************************************************)
(* StatsPerform: what the claims speak of, read off the feed taken so far. *)
(***************************************************************************)
SPIsMarker(rec) ==
    rec.typeId \in {EVENT_TYPE_START_PERIOD, EVENT_TYPE_END_PERIOD}

\* The record's period is one the metadata declares.
SPTracked(rec) == \E k \in 1..Len(sp_metadata) : sp_metadata[k].id = rec.periodId

\* The record's timeStamp is in one of the two accepted formats.
SPDateOk(d) == d.sep = "T" /\ d.z = 1

\* The acting team of a record of the home or the away team.
SPActingTeam(rec) == IF rec.contestantId = home_team_id THEN "HOME" ELSE "AWAY"

SPKnownTeam(rec) == rec.contestantId \in {home_team_id, away_team_id}

\* Record i of the feed ended the call with an exception.
SPRaisedAt(i) == sp_pc = "raised" /\ i = Len(sp_feed)

\* The output events built from record i.
SPEmitted(i) == {k \in 1..Len(sp_events) : sp_events[k].event_id = i}

\* The ball-owning team after record i: the acting team of the last in-period,
\* non-marker record up to i of a type in BALL_OWNING_EVENTS (1, 2, 3, 13,
\* 14, 15, 16, 49), None when there is none.
SPTransfers(j) ==
    /\ ~SPIsMarker(sp_feed[j])
    /\ SPTracked(sp_feed[j])
    /\ SPKnownTeam(sp_feed[j])
    /\ sp_feed[j].typeId \in {1, 2, 3, 13, 14, 15, 16, 49}

SPOwnerAfter(i) ==
    LET transfers == {j \in 1..i : SPTransfers(j)}
    IN  IF transfers = {} THEN None
        ELSE Some(SPActingTeam(
                 sp_feed[CHOOSE j \in transfers : \A m \in transfers : m <= j]))

\* C1: the ball-owning team of every emitted event is the acting team of the
\* most recent in-period, non-marker record of a type in BALL_OWNING_EVENTS
\* processed up to and including the event's own record, and None when there
\* is no such record; the carried possession value is the same function of
\* the whole feed processed, so a record of any other type leaves it as it is.
C1_PossessionFollowsLastTransfer ==
    /\ \A k \in 1..Len(sp_events) :
         sp_events[k].ball_owning_team = SPOwnerAfter(sp_events[k].event_id)
    /\ sp_pc \in {"loop", "done"} =>
         sp_possession_team = SPOwnerAfter(Len(sp_feed))

\* A foul by the home team is emitted owned by the away team, after an
\* earlier event was emitted owned by the home team.
C1_Witness ==
    \E k, m \in 1..Len(sp_events) :
        /\ m < k
        /\ sp_events[m].ball_owning_team = Some("HOME")
        /\ sp_events[k].kind = "foul_committed"
        /\ sp_events[k].team = "HOME"
        /\ sp_events[k].ball_owning_team = Some("AWAY")

\* C3 (as claimed): a non-marker record processed before any start-of-period
\* marker (type 32) of its own period is not in the output and does not
\* raise.
C3_NoEventBeforeStartMarker ==
    \A i \in 1..Len(sp_feed) :
        ( /\ ~SPIsMarker(sp_feed[i])
          /\ ~\E j \in 1..(i - 1) :
                 /\ sp_feed[j].typeId = EVENT_TYPE_START_PERIOD
                 /\ sp_feed[j].periodId = sp_feed[i].periodId )
        => (SPEmitted(i) = {} /\ ~SPRaisedAt(i))

\* C6 (as claimed): an in-period, non-marker record of a team that is
\* neither the home nor the away team ends the call with
\* DeserializationError.
C6_UnknownTeamIsDeserializationError ==
    \A i \in 1..Len(sp_feed) :
        ( /\ ~SPIsMarker(sp_feed[i])
          /\ SPDateOk(sp_feed[i].timeStamp)
          /\ SPTracked(sp_feed[i])
          /\ ~SPKnownTeam(sp_feed[i]) )
        => (SPRaisedAt(i) /\ sp_error = "DeserializationError")

(***************************************************************************)
(* C3, without the records of an unknown team: the feeds of SPRecords in   *)
(* which every record is of the home or of the away team.                  *)
(***************************************************************************)
NextKnownTeams ==
    \/ SPStart(SPMetadatas)
    \/ SPStep(SPMarkers \cup SPTeamEvents)
    \/ SPFinish

SpecKnownTeams == Init /\ [][NextKnownTeams]_vars

(***************************************************************************)
(* StatsPerform, timestamps: feeds of start markers, passes, missed shots  *)
(* and goals at two times each, the shots with and without the goal-time   *)
(* qualifier 374, mostly of period 1.                                      *)
(***************************************************************************)
\* "....  00:00:<s>" and ".... 00:00:<s>.<micro>", as qualifier 374 holds it
GoalTimeValue(s) == DateStr(" ", s, None, 0)
GoalTimeFracValue(s, micro) == DateStr(" ", s, Some(micro), 0)

WithGoalTime(value) == (QUALIFIER_GOAL_TIME :> value)

SPTimeStamps == {DateZ(10), DateFracZ(11, 500000)}

SPTimeMarkers ==
    { SPRecord(EVENT_TYPE_START_PERIOD, 1, t, home_team_id, FALSE, 1, "50", "50",
               EmptyDict, TRUE) : t \in {DateZ(2), DateFracZ(3, 250000)} }
    \cup
    { SPRecord(EVENT_TYPE_START_PERIOD, 2, DateZ(2), home_team_id, FALSE, 1,
               "50", "50", EmptyDict, TRUE) }

SPTimeShapes ==
    { << EVENT_TYPE_PASS, PassEnd("50", "50") >>,
      << EVENT_TYPE_SHOT_MISS, EmptyDict >>,
      << EVENT_TYPE_SHOT_MISS, WithGoalTime(Some(GoalTimeValue(8))) >>,
      << EVENT_TYPE_SHOT_GOAL, EmptyDict >>,
      << EVENT_TYPE_SHOT_GOAL, WithGoalTime(Some(GoalTimeValue(8))) >>,
      << EVENT_TYPE_SHOT_GOAL, WithGoalTime(Some(GoalTimeFracValue(9, 750000))) >>,
      \* a qualifier 374 without a value, and one that ends with "Z" already
      << EVENT_TYPE_SHOT_GOAL, WithGoalTime(None) >>,
      << EVENT_TYPE_SHOT_GOAL, WithGoalTime(Some(DateZ(8))) >> }

SPTimeEvents ==
    { SPRecord(sh[1], 1, t, home_team_id, FALSE, 1, "50", "50", sh[2], TRUE) :
        sh \in SPTimeShapes, t \in SPTimeStamps }
    \cup
    { SPRecord(EVENT_TYPE_SHOT_GOAL, 2, DateZ(10), home_team_id, FALSE, 1,
               "50", "50", WithGoalTime(Some(GoalTimeValue(8))), TRUE) }

\* A timeStamp without the final "Z".
SPBadDateEvents ==
    { SPRecord(EVENT_TYPE_PASS, 1, DateStr("T", 10, None, 0), home_team_id, FALSE,
               1, "50", "50", PassEnd("50", "50"), TRUE) }

SPTimeRecords == SPTimeMarkers \cup SPTimeEvents \cup SPBadDateEvents

NextTime ==
    \/ SPStart(SPMetadatas)
    \/ SPStep(SPTimeRecords)
    \/ SPFinish

SpecTime == Init /\ [][NextTime]_vars

\* The microseconds a date string denotes.
Micros(d) == d.s * 1000000 + (IF d.frac = None THEN 0 ELSE d.frac[1])

\* The start timestamp the period of record i holds when record i is
\* processed: that of the last start marker of the period before i, and the
\* declared start when there is none.
SPStartWhenProcessed(i) ==
    LET marks == {j \in 1..(i - 1) :
                     /\ sp_feed[j].typeId = EVENT_TYPE_START_PERIOD
                     /\ sp_feed[j].periodId = sp_feed[i].periodId}
        declared == CHOOSE k \in 1..Len(sp_metadata) :
                        sp_metadata[k].id = sp_feed[i].periodId
    IN  IF marks = {} THEN Micros(sp_metadata[declared].start)
        ELSE Micros(sp_feed[CHOOSE j \in marks : \A m \in marks : m <= j].timeStamp)

\* The absolute time of record i: its timeStamp, and for a goal (type 16)
\* with qualifier 374 the time that qualifier holds.
SPAbsoluteTime(i) ==
    IF sp_feed[i].typeId = 16 /\ 374 \in DOMAIN sp_feed[i].qualifier
    THEN Micros(sp_feed[i].qualifier[374][1])
    ELSE Micros(sp_feed[i].timeStamp)

\* C5: the relative timestamp of every emitted event is its absolute
\* timestamp minus the start timestamp its period holds when the event is
\* processed, where the absolute timestamp of a goal (type 16) with
\* qualifier 374 is the corrected time of the qualifier and that of every
\* other event, a non-goal shot with qualifier 374 included, is its own.
C5_RelativeTimestamp ==
    \A k \in 1..Len(sp_events) :
        sp_events[k].timestamp =
            SPAbsoluteTime(sp_events[k].event_id)
                - SPStartWhenProcessed(sp_events[k].event_id)

\* After a start marker at 3.25 s, a goal stamped 10 s whose qualifier 374
\* says 9.75 s is emitted at 6.5 s, and a missed shot stamped 10 s whose
\* qualifier 374 says 8 s at 6.75 s.
C5_Witness ==
    \E k, m \in 1..Len(sp_events) :
        /\ sp_feed[sp_events[k].event_id].typeId = EVENT_TYPE_SHOT_GOAL
        /\ sp_feed[sp_events[k].event_id].timeStamp = DateZ(10)
        /\ sp_feed[sp_events[k].event_id].qualifier
               = WithGoalTime(Some(GoalTimeFracValue(9, 750000)))
        /\ sp_events[k].timestamp = 6500000
        /\ sp_feed[sp_events[m].event_id].typeId = EVENT_TYPE_SHOT_MISS
        /\ sp_feed[sp_events[m].event_id].timeStamp = DateZ(10)
        /\ QUALIFIER_GOAL_TIME \in DOMAIN sp_feed[sp_events[m].event_id].qualifier
        /\ sp_events[m].timestamp = 6750000

(***************************************************************************)
(* StatsPerform, builders: feeds of cards, shots and passes of period 1.   *)
(***************************************************************************)
\* A raw qualifier mapping with the given codes, none with a value.
Flags(codes) == [c \in codes |-> None]

SPCardEvents ==
    { SPRecord(EVENT_TYPE_CARD, 1, DateZ(10), home_team_id, FALSE, 1, "50", "50",
               Flags(codes), TRUE) :
        codes \in SUBSET { EVENT_QUALIFIER_FIRST_YELLOW_CARD,
                           EVENT_QUALIFIER_SECOND_YELLOW_CARD,
                           EVENT_QUALIFIER_RED_CARD } }

SPShotEvents ==
    { SPRecord(t, 1, DateZ(10), home_team_id, FALSE, 1, xy[1], xy[2], q, TRUE) :
        t \in {EVENT_TYPE_SHOT_SAVED, EVENT_TYPE_SHOT_GOAL},
        xy \in { << "90", "10" >>, << "0.1", "50.3" >> },
        q \in { EmptyDict, Flags({QUALIFIER_OWN_GOAL}) } }

SPPassEvents ==
    { SPRecord(t, 1, DateZ(10), home_team_id, FALSE, outcome, "50", "50",
               PassEnd("10", "90"), include) :
        t \in {EVENT_TYPE_PASS, EVENT_TYPE_OFFSIDE_PASS},
        outcome \in {0, 1}, include \in BOOLEAN }

\* A pass without qualifier 141, and a pass whose qualifier 140 has no value.
SPBadPassEvents ==
    { SPRecord(EVENT_TYPE_PASS, 1, DateZ(10), home_team_id, FALSE, 0, "50", "50",
               q, TRUE) :
        q \in { (QUALIFIER_PASS_END_X :> Some("10")),
                (QUALIFIER_PASS_END_X :> None) @@ (QUALIFIER_PASS_END_Y :> Some("90")) } }

SPBuildRecords ==
    SPCardEvents \cup SPShotEvents \cup SPPassEvents \cup SPBadPassEvents

NextBuild ==
    \/ SPStart({ << MetadataPeriod(1, DateZ(0), DateZ(45)) >> })
    \/ SPStep(SPBuildRecords)
    \/ SPFinish

SpecBuild == Init /\ [][NextBuild]_vars

\* The event as the builder made it: the coordinates before the transform.
SPBuiltPoint(point) == point[1].source

\* C8 (as claimed): the card_type of an emitted card event is RED when raw
\* code 33 is present, else FIRST_YELLOW when 31 is present, else
\* SECOND_YELLOW when 32 is present, and None only when none of the three is.
C8_CardTypeFromChain ==
    \A k \in 1..Len(sp_events) :
        sp_events[k].kind = "card" =>
            LET raw == DOMAIN sp_feed[sp_events[k].event_id].qualifier
            IN  sp_events[k].card_type =
                    IF 33 \in raw THEN Some("RED")
                    ELSE IF 31 \in raw THEN Some("FIRST_YELLOW")
                    ELSE IF 32 \in raw THEN Some("SECOND_YELLOW")
                    ELSE None

\* The point mirrored through the centre of the pitch, in the arithmetic of
\* the code: (100 - x, 100 - y) on doubles.
Mirrored(point) ==
    Point(FloatSub(FloatOfInt(100), point.x), FloatSub(FloatOfInt(100), point.y))

\* 100 - x and 100 - y are doubles, so that no rounding takes place.
MirrorIsExact(point) ==
    /\ LimbSub(FloatOfInt(100), point.x) = FloatSub(FloatOfInt(100), point.x)
    /\ LimbSub(FloatOfInt(100), point.y) = FloatSub(FloatOfInt(100), point.y)

\* The event is the shot of an own goal: a goal (type 16) with qualifier 28.
SPIsOwnGoal(rec) == rec.typeId = 16 /\ 28 \in DOMAIN rec.qualifier

\* The result and the coordinates of the shot built from record rec.
SPShotAsClaimed(event, rec) ==
    LET at == Point(float(rec.x), float(rec.y))
    IN  IF SPIsOwnGoal(rec)
        THEN /\ event.result = Some("OWN_GOAL")
             /\ SPBuiltPoint(event.coordinates) = Mirrored(at)
        ELSE /\ event.result = (IF rec.typeId = 16 THEN Some("GOAL") ELSE None)
             /\ SPBuiltPoint(event.coordinates) = at

\* C9 (as claimed): a goal with qualifier 28 is a shot with result OWN_GOAL
\* at (100 - x, 100 - y), a goal without it has result GOAL at (x, y), a shot
\* of type 13, 14 or 15 has no result and is at (x, y) even with qualifier
\* 28; and mirroring the coordinates of an own goal once more gives the
\* coordinates of the record back.
C9_ShotAndInvolution ==
    \A k \in 1..Len(sp_events) :
        sp_events[k].kind = "shot" =>
            LET rec == sp_feed[sp_events[k].event_id]
                at == Point(float(rec.x), float(rec.y))
            IN  /\ SPShotAsClaimed(sp_events[k], rec)
                /\ SPIsOwnGoal(rec) =>
                       Mirrored(SPBuiltPoint(sp_events[k].coordinates)) = at

\* C9 (amended): results and coordinates as claimed; mirroring the
\* coordinates of an own goal once more gives the coordinates of the record
\* back whenever 100 - x and 100 - y are computed without rounding, as they
\* are for whole coordinates.
C9_ShotAndExactInvolution ==
    \A k \in 1..Len(sp_events) :
        sp_events[k].kind = "shot" =>
            LET rec == sp_feed[sp_events[k].event_id]
                at == Point(float(rec.x), float(rec.y))
            IN  /\ SPShotAsClaimed(sp_events[k], rec)
                /\ (SPIsOwnGoal(rec) /\ MirrorIsExact(at)) =>
                       Mirrored(SPBuiltPoint(sp_events[k].coordinates)) = at
                /\ (at.x[2] = 0 /\ at.x[3] = 0 /\ at.y[2] = 0 /\ at.y[3] = 0)
                       => MirrorIsExact(at)

\* An own goal at (90, 10) is emitted at (10, 90), and a saved shot with
\* qualifier 28 is emitted where it was taken.
C9_Witness ==
    \E k, m \in 1..Len(sp_events) :
        /\ sp_feed[sp_events[k].event_id].typeId = EVENT_TYPE_SHOT_GOAL
        /\ sp_feed[sp_events[k].event_id].x = "90"
        /\ sp_events[k].result = Some("OWN_GOAL")
        /\ SPBuiltPoint(sp_events[k].coordinates)
               = Point(FloatOfInt(10), FloatOfInt(90))
        /\ sp_feed[sp_events[m].event_id].typeId = EVENT_TYPE_SHOT_SAVED
        /\ QUALIFIER_OWN_GOAL \in DOMAIN sp_feed[sp_events[m].event_id].qualifier
        /\ sp_events[m].result = None

\* C10: every in-period pass record (type 1) that the inclusion predicate
\* retains yields exactly one pass event, COMPLETE for a non-zero outcome and
\* INCOMPLETE for outcome 0; an offside pass (type 2) yields OFFSIDE whatever
\* the outcome; the receiver coordinates are the values of qualifiers 140
\* and 141 in all three cases.
C10_PassResultAndReceiver ==
    \A i \in 1..Len(sp_feed) :
        ( /\ sp_feed[i].typeId \in {1, 2}
          /\ SPTracked(sp_feed[i])
          /\ sp_feed[i].include
          /\ ~SPRaisedAt(i) )
        => /\ Cardinality(SPEmitted(i)) = 1
           /\ \A k \in SPEmitted(i) :
                /\ sp_events[k].kind = "pass"
                /\ sp_events[k].result =
                       Some(IF sp_feed[i].typeId = 2 THEN "OFFSIDE"
                            ELSE IF sp_feed[i].outcome # 0 THEN "COMPLETE"
                            ELSE "INCOMPLETE")
                /\ sp_events[k].receiver_coordinates # None
                /\ SPBuiltPoint(sp_events[k].receiver_coordinates) =
                       Point(float(sp_feed[i].qualifier[140][1]),
                             float(sp_feed[i].qualifier[141][1]))

\* An incomplete pass and an offside pass with outcome 1 are emitted, each
\* with the receiver at (10, 90).
C10_Witness ==
    \E k, m \in 1..Len(sp_events) :
        /\ sp_feed[sp_events[k].event_id].typeId = EVENT_TYPE_PASS
        /\ sp_events[k].result = Some("INCOMPLETE")
        /\ SPBuiltPoint(sp_events[k].receiver_coordinates)
               = Point(FloatOfInt(10), FloatOfInt(90))
        /\ sp_feed[sp_events[m].event_id].typeId = EVENT_TYPE_OFFSIDE_PASS
        /\ sp_feed[sp_events[m].event_id].outcome = 1
        /\ sp_events[m].result = Some("OFFSIDE")

(***************************************************************************)
(* The qualifier mapper on its own: _get_event_qualifiers applied to a raw *)
(* mapping of at most MaxQualifiers of the codes the four chains test.     *)
(***************************************************************************)
MaxQualifiers == 3

ChainCodes ==
    { EVENT_QUALIFIER_CORNER_KICK, EVENT_QUALIFIER_FREE_KICK,
      EVENT_QUALIFIER_FREE_KICK_SHOT, EVENT_QUALIFIER_PENALTY,
      EVENT_QUALIFIER_THROW_IN, EVENT_QUALIFIER_KICK_OFF,
      EVENT_QUALIFIER_GOAL_KICK,
      EVENT_QUALIFIER_HEAD_PASS, EVENT_QUALIFIER_HEAD, EVENT_QUALIFIER_LEFT_FOOT,
      EVENT_QUALIFIER_RIGHT_FOOT, EVENT_QUALIFIER_OTHER_BODYPART,
      EVENT_QUALIFIER_CROSS, EVENT_QUALIFIER_LONG_BALL,
      EVENT_QUALIFIER_CHIPPED_BALL, EVENT_QUALIFIER_THROUGH_BALL,
      EVENT_QUALIFIER_LAUNCH, EVENT_QUALIFIER_FLICK_ON, EVENT_QUALIFIER_ASSIST,
      EVENT_QUALIFIER_ASSIST_2ND,
      EVENT_QUALIFIER_RED_CARD, EVENT_QUALIFIER_FIRST_YELLOW_CARD,
      EVENT_QUALIFIER_SECOND_YELLOW_CARD }

\* The sets of at most n chain codes.
RECURSIVE CodeSets(_)
CodeSets(n) ==
    IF n = 0 THEN { {} }
    ELSE LET smaller == CodeSets(n - 1)
         IN  smaller \cup {codes \cup {c} : codes \in smaller, c \in ChainCodes}

InitFn ==
    /\ sp_pc = "start"
    /\ sp_error = NoError
    /\ sp_metadata = << >>
    /\ sp_feed = << >>
    /\ sp_periods = << >>
    /\ sp_possession_team = None
    /\ sp_events = << >>
    /\ uefa_pc = "start"
    /\ uefa_error = NoError
    /\ uefa_data = << >>
    /\ uefa_idx = 0
    /\ uefa_periods = << >>
    /\ uefa_possession_team = None
    /\ uefa_events = << >>
    /\ fn_pc = "input"
    /\ fn_raw_qualifiers \in {Flags(codes) : codes \in CodeSets(MaxQualifiers)}
    /\ fn_qualifiers = << >>

FnApply ==
    /\ fn_pc = "input"
    /\ fn_qualifiers' = _get_event_qualifiers(fn_raw_qualifiers)
    /\ fn_pc' = "output"
    /\ UNCHANGED fn_raw_qualifiers
    /\ UNCHANGED << sp_vars, uefa_vars >>

NextFn == FnApply

SpecFn == InitFn /\ [][NextFn]_vars

\* The four chains as the claim gives them: the codes of each in the order
\* of their priority, each with the qualifier it stands for.
SetPieceChain ==
    << << 6, "CORNER_KICK" >>, << 5, "FREE_KICK" >>, << 26, "FREE_KICK" >>,
       << 9, "PENALTY" >>, << 107, "THROW_IN" >>, << 279, "KICK_OFF" >>,
       << 124, "GOAL_KICK" >> >>
BodyPartChain ==
    << << 3, "HEAD" >>, << 15, "HEAD" >>, << 72, "LEFT_FOOT" >>,
       << 20, "RIGHT_FOOT" >>, << 21, "OTHER" >> >>
PassChain ==
    << << 2, "CROSS" >>, << 1, "LONG_BALL" >>, << 155, "CHIPPED_PASS" >>,
       << 4, "THROUGH_BALL" >>, << 157, "LAUNCH" >>, << 168, "FLICK_ON" >>,
       << 210, "ASSIST" >>, << 218, "ASSIST_2ND" >> >>
CardChain ==
    << << 33, "RED" >>, << 31, "FIRST_YELLOW" >>, << 32, "SECOND_YELLOW" >> >>

\* The qualifiers of class `class` in a list of qualifiers, in their order.
OfClass(qualifiers, class) == SelectSeq(qualifiers, LAMBDA q : q.py = class)

\* What a chain attaches for the raw codes `raw`: nothing when no code of
\* the chain is present, and else the one qualifier of the first code of
\* the chain that is.
ChainAttaches(attached, chain, raw) ==
    LET present == {i \in 1..Len(chain) : chain[i][1] \in raw}
    IN  /\ Len(attached) <= 1
        /\ present = {} => attached = << >>
        /\ \A i \in present :
             (\A j \in present : i <= j) =>
                 (Len(attached) = 1 /\ attached[1].value = chain[i][2])

\* C7: for every set of raw codes each of the four chains attaches at most
\* one qualifier, that of the first code present in its order of priority;
\* a code of lower priority yields nothing when one of higher priority of
\* its chain is present; and the list holds nothing else.
C7_ChainPrecedence ==
    fn_pc = "output" =>
        LET raw == DOMAIN fn_raw_qualifiers
            classes == { "SetPieceQualifier", "BodyPartQualifier",
                         "PassQualifier", "CardQualifier" }
        IN  /\ ChainAttaches(OfClass(fn_qualifiers, "SetPieceQualifier"),
                             SetPieceChain, raw)
            /\ ChainAttaches(OfClass(fn_qualifiers, "BodyPartQualifier"),
                             BodyPartChain, raw)
            /\ ChainAttaches(OfClass(fn_qualifiers, "PassQualifier"),
                             PassChain, raw)
            /\ ChainAttaches(OfClass(fn_qualifiers, "CardQualifier"),
                             CardChain, raw)
            /\ \A i \in 1..Len(fn_qualifiers) : fn_qualifiers[i].py \in classes

\* A cross, a long ball and a free kick together give the free kick and the
\* cross, and no long ball.
C7_Witness ==
    /\ fn_pc = "output"
    /\ DOMAIN fn_raw_qualifiers
           = { EVENT_QUALIFIER_CROSS, EVENT_QUALIFIER_LONG_BALL,
               EVENT_QUALIFIER_FREE_KICK_SHOT }
    /\ fn_qualifiers = << SetPieceQualifier("FREE_KICK"), PassQualifier("CROSS") >>

(***************************************************************************)
(* UEFA: deserialize.                                                      *)
(***************************************************************************)
UEFA_EVENT_TYPE_START_PERIOD == "START_PHASE"
UEFA_EVENT_TYPE_END_PERIOD == "END_PHASE"
UEFA_EVENT_TYPE_SHOT_WIDE == "SHOT_WIDE"

PHASE_TO_PERIOD == ("FIRST_HALF" :> 1) @@ ("SECOND_HALF" :> 2)

UEFA_BALL_OWNING_EVENTS == {UEFA_EVENT_TYPE_SHOT_WIDE}

\* Reversed with the list left in its order.
Reversed_forward(list) == list

\* event_data[::-1]
Reversed(list) == [i \in 1..Len(list) |-> list[Len(list) + 1 - i]]

\* datetime.fromisoformat on a date string without a final "Z": the
\* datetime in microseconds.
fromisoformat(date_string) ==
    date_string.s * 1000000
        + (IF date_string.frac = None THEN 0 ELSE date_string.frac[1])

\* periods[PHASE_TO_PERIOD[phase] - 1]: [err, idx], idx the position in the
\* list counted from 1.
PeriodByPhase(periods, phase) ==
    IF phase \notin DOMAIN PHASE_TO_PERIOD THEN [err |-> "KeyError", idx |-> 0]
    ELSE IF PHASE_TO_PERIOD[phase] - 1 >= Len(periods)
    THEN [err |-> "IndexError", idx |-> 0]
    ELSE [err |-> NoError, idx |-> PHASE_TO_PERIOD[phase]]

\* The team of event_elm["primaryActor"]["team"]["id"]: [err, team], team
\* None without a primary actor or without a team of the actor.
UefaTeam(event_elm) ==
    IF event_elm.primaryActor = None \/ event_elm.primaryActor[1].team = None
    THEN [err |-> NoError, team |-> None]
    ELSE IF event_elm.primaryActor[1].team[1] = home_team_id
    THEN [err |-> NoError, team |-> Some(teams[1])]
    ELSE IF event_elm.primaryActor[1].team[1] = away_team_id
    THEN [err |-> NoError, team |-> Some(teams[2])]
    ELSE [err |-> "DeserializationError", team |-> None]

\* possession_team = None; if type_id in BALL_OWNING_EVENTS: possession_team = team
UefaPossession(type_id, team) ==
    IF type_id \in UEFA_BALL_OWNING_EVENTS THEN team ELSE None

\* UefaTimestamp with a missing timestamp read as the epoch:
\* event_elm.get("timestamp", ...) in place of event_elm["timestamp"].
UefaTimestamp_default(event_elm) ==
    IF event_elm.timestamp = None THEN [err |-> NoError, v |-> 0]
    ELSE [err |-> NoError, v |-> fromisoformat(event_elm.timestamp[1])]

\* datetime.fromisoformat(event_elm["timestamp"]): [err, v], KeyError for
\* a record without the key.
UefaTimestamp(event_elm) ==
    IF event_elm.timestamp = None THEN [err |-> "KeyError", v |-> 0]
    ELSE [err |-> NoError, v |-> fromisoformat(event_elm.timestamp[1])]

\* StartPeriod with the list begun anew: periods = [Period(...)].
StartPeriod_fresh_list(periods, phase, timestamp) ==
    << Period(PHASE_TO_PERIOD[phase], Some(timestamp), None) >>

\* StartPeriod with the period appended before it has a start.
StartPeriod_unstarted(periods, phase, timestamp) ==
    Append(periods, Period(PHASE_TO_PERIOD[phase], None, None))

\* periods.append(Period(id=PHASE_TO_PERIOD[phase],
\*                       start_timestamp=timestamp, end_timestamp=None))
StartPeriod(periods, phase, timestamp) ==
    Append(periods, Period(PHASE_TO_PERIOD[phase], Some(timestamp), None))

\* One iteration of `for idx, event_elm in enumerate(event_data[::-1])`.
UefaLoopBody(periods, possession_team, events, event_elm) ==
    LET keep == [ periods |-> periods, possession_team |-> possession_team,
                  events |-> events, err |-> NoError ]
        type_id == event_elm.type
        phase == event_elm.phase
    IN  IF UefaTimestamp(event_elm).err = "KeyError"
        THEN keep   \* except KeyError: continue
        ELSE
        LET timestamp == UefaTimestamp(event_elm).v
            p == PeriodByPhase(periods, phase)
            team == UefaTeam(event_elm)
        IN  IF type_id = UEFA_EVENT_TYPE_START_PERIOD
            THEN IF phase \notin DOMAIN PHASE_TO_PERIOD
                 THEN [keep EXCEPT !.err = "KeyError"]
                 ELSE [keep EXCEPT !.periods = StartPeriod(@, phase, timestamp)]
            ELSE IF type_id = UEFA_EVENT_TYPE_END_PERIOD
            THEN IF p.err # NoError THEN [keep EXCEPT !.err = p.err]
                 ELSE [keep EXCEPT !.periods[p.idx].end_timestamp = Some(timestamp)]
            ELSE IF p.err # NoError THEN [keep EXCEPT !.err = p.err]
            ELSE IF team.err # NoError THEN [keep EXCEPT !.err = team.err]
            ELSE IF periods[p.idx].start_timestamp = None
            THEN \* timestamp - period.start_timestamp, a datetime minus None
                 [keep EXCEPT !.err = "TypeError"]
            ELSE
            LET possession == UefaPossession(type_id, team.team)
                event ==
                    [ kind |-> IF type_id = UEFA_EVENT_TYPE_SHOT_WIDE
                               THEN "shot" ELSE "generic",
                      period |-> p.idx,
                      timestamp |-> RelativeTimestamp(timestamp, periods[p.idx]),
                      ball_owning_team |-> possession,
                      ball_state |-> "ALIVE",
                      event_id |-> event_elm.id,
                      team |-> team.team,
                      coordinates |-> event_elm.fieldPosition,
                      result |-> IF type_id = UEFA_EVENT_TYPE_SHOT_WIDE
                                 THEN Some("OFF_TARGET") ELSE None,
                      qualifiers |-> None,
                      receiver_coordinates |-> None,
                      event_name |-> IF type_id = UEFA_EVENT_TYPE_SHOT_WIDE
                                     THEN None ELSE Some(type_id) ]
            IN  [keep EXCEPT
                   !.possession_team = possession,
                   !.events = AppendIncluded(@, event_elm, event)]

UefaLoad(feeds) ==
    /\ uefa_pc = "start"
    /\ \E event_data \in feeds : uefa_data' = event_data
    /\ uefa_pc' = "loop"
    /\ UNCHANGED << uefa_error, uefa_idx, uefa_periods, uefa_possession_team,
                    uefa_events >>
    /\ UNCHANGED << sp_vars, fn_vars >>

UefaStep ==
    /\ uefa_pc = "loop"
    /\ uefa_idx < Len(uefa_data)
    /\ LET event_elm == Reversed(uefa_data)[uefa_idx + 1]
           after == UefaLoopBody(uefa_periods, uefa_possession_team,
                                 uefa_events, event_elm)
       IN  /\ uefa_idx' = uefa_idx + 1
           /\ uefa_periods' = after.periods
           /\ uefa_possession_team' = after.possession_team
           /\ uefa_events' = after.events
           /\ uefa_error' = after.err
           /\ uefa_pc' = IF after.err = NoError THEN "loop" ELSE "raised"
    /\ UNCHANGED uefa_data
    /\ UNCHANGED << sp_vars, fn_vars >>

UefaFinish ==
    /\ uefa_pc = "loop"
    /\ uefa_idx = Len(uefa_data)
    /\ uefa_pc' = "done"
    /\ UNCHANGED << uefa_error, uefa_data, uefa_idx, uefa_periods,
                    uefa_possession_team, uefa_events >>
    /\ UNCHANGED << sp_vars, fn_vars >>

(***************************************************************************)
(* UEFA: the feeds of the model.                                           *)
(***************************************************************************)
\* "....T00:00:<s>"
IsoDate(s) == DateStr("T", s, None, 0)

UefaRecord(type, phase, timestamp, primaryActor, include) ==
    [ id |-> 0, type |-> type, phase |-> phase, timestamp |-> timestamp,
      primaryActor |-> primaryActor, fieldPosition |-> None, include |-> include ]

ActorOf(team_id) == Some([team |-> Some(team_id)])

UefaPhases == {"FIRST_HALF", "SECOND_HALF"}

UefaMarkers ==
    { UefaRecord(t, ph, Some(IsoDate(5)), None, TRUE) :
        t \in {UEFA_EVENT_TYPE_START_PERIOD, UEFA_EVENT_TYPE_END_PERIOD},
        ph \in UefaPhases }

UefaTeamEvents ==
    { UefaRecord(t, ph, Some(IsoDate(10)), ActorOf(team_id), TRUE) :
        t \in {UEFA_EVENT_TYPE_SHOT_WIDE, "PASS"}, ph \in UefaPhases,
        team_id \in {home_team_id, away_team_id} }

\* A shot the inclusion predicate rejects, a marker and an event without a
\* timestamp, an event of an unknown team and an event without an actor.
UefaOtherRecords ==
    { UefaRecord(UEFA_EVENT_TYPE_SHOT_WIDE, "FIRST_HALF", Some(IsoDate(10)),
                 ActorOf(home_team_id), FALSE),
      UefaRecord(UEFA_EVENT_TYPE_START_PERIOD, "FIRST_HALF", None, None, TRUE),
      UefaRecord("PASS", "FIRST_HALF", None, ActorOf(home_team_id), TRUE),
      UefaRecord("PASS", "FIRST_HALF", Some(IsoDate(10)), ActorOf("id_other"), TRUE),
      UefaRecord("PASS", "FIRST_HALF", Some(IsoDate(10)), None, TRUE) }

UefaRecords == UefaMarkers \cup UefaTeamEvents \cup UefaOtherRecords

\* The lists of at most n records.
RECURSIVE Lists(_, _)
Lists(records, n) ==
    IF n = 0 THEN { << >> }
    ELSE LET shorter == Lists(records, n - 1)
         IN  shorter \cup {Append(list, r) : list \in shorter, r \in records}

\* A record of the feed gets its place in the feed as its id.
Numbered(list) == [i \in 1..Len(list) |-> [list[i] EXCEPT !.id = i]]

UefaFeeds == {Numbered(list) : list \in Lists(UefaRecords, MaxFeed)}

NextUefa ==
    \/ UefaLoad(UefaFeeds)
    \/ UefaStep
    \/ UefaFinish

SpecUefa == Init /\ [][NextUefa]_vars

(***************************************************************************)
(* UEFA: what the claims speak of.  The record processed k-th is the k-th  *)
(* of the feed read from its end.                                          *)
(***************************************************************************)
UefaProcessed(k) == uefa_data[Len(uefa_data) + 1 - k]

\* The place in the order of processing of the record with this id.
UefaPlace(id) == Len(uefa_data) + 1 - id

UefaIsMarker(rec) ==
    rec.type \in {UEFA_EVENT_TYPE_START_PERIOD, UEFA_EVENT_TYPE_END_PERIOD}

UefaRaisedAt(k) == uefa_pc = "raised" /\ k = uefa_idx

UefaEmitted(id) == {e \in 1..Len(uefa_events) : uefa_events[e].event_id = id}

\* A SHOT_WIDE with a timestamp by the home or the away team.
UefaTransfers(rec) ==
    /\ rec.type = "SHOT_WIDE"
    /\ rec.timestamp # None
    /\ rec.primaryActor # None
    /\ rec.primaryActor[1].team \in {Some(home_team_id), Some(away_team_id)}

UefaActingTeam(rec) ==
    IF rec.primaryActor[1].team = Some(home_team_id) THEN "HOME" ELSE "AWAY"

\* C2 (as claimed): once a SHOT_WIDE by team T has been processed, every
\* event emitted from then on, of whatever type, carries ball-owning team T
\* until the next SHOT_WIDE.
C2_UefaPossessionCarried ==
    \A e \in 1..Len(uefa_events) :
        LET k == UefaPlace(uefa_events[e].event_id)
            transfers == {j \in 1..k : UefaTransfers(UefaProcessed(j))}
        IN  transfers # {} =>
                uefa_events[e].ball_owning_team =
                    Some(UefaActingTeam(UefaProcessed(
                        CHOOSE j \in transfers : \A m \in transfers : m <= j)))

\* C4 (as claimed): a non-marker record of the second half processed before
\* any START_PHASE marker of the second half is dropped and raises nothing.
C4_UefaEarlyEventDropped ==
    \A k \in 1..uefa_idx :
        ( /\ ~UefaIsMarker(UefaProcessed(k))
          /\ UefaProcessed(k).timestamp # None
          /\ UefaProcessed(k).phase = "SECOND_HALF"
          /\ ~\E j \in 1..(k - 1) :
                 /\ UefaProcessed(j).type = "START_PHASE"
                 /\ UefaProcessed(j).phase = "SECOND_HALF"
                 /\ UefaProcessed(j).timestamp # None )
        => (UefaEmitted(UefaProcessed(k).id) = {} /\ ~UefaRaisedAt(k))

(***************************************************************************)
(* The order of the output.                                                *)
(***************************************************************************)
\* The event identifiers of a list of events, in order.
EventIds(events) == [k \in 1..Len(events) |-> events[k].event_id]

\* C11: the identifiers of the StatsPerform output, in order, are a
\* subsequence of the identifiers of the feed in feed order (a record's
\* identifier is its place in the feed, so: strictly increasing places of
\* the feed), and no record has more than one event.
C11_OutputIdsSubsequence ==
    /\ \A k \in 1..Len(sp_events) : sp_events[k].event_id \in 1..Len(sp_feed)
    /\ \A k, m \in 1..Len(sp_events) :
           k < m => sp_events[k].event_id < sp_events[m].event_id
    /\ \A i \in 1..Len(sp_feed) : Cardinality(SPEmitted(i)) <= 1

\* The first and the third record of a feed are emitted, in this order, and
\* the second, an event the inclusion predicate rejects, is not.
C11_Witness ==
    /\ Len(sp_feed) = 3
    /\ ~SPIsMarker(sp_feed[2]) /\ ~sp_feed[2].include
    /\ EventIds(sp_events) = << 1, 3 >>

\* The records the UEFA loop has been through, in the order of processing
\* the claim states: from the last record of the feed to the first.
UefaProcessedSoFar == [k \in 1..uefa_idx |-> UefaProcessed(k)]

\* A START_PHASE record with a timestamp.
UefaStarts(rec) == rec.type = "START_PHASE" /\ rec.timestamp # None

\* C12: the UEFA feed is processed from its last record to its first: the
\* periods are those of the START_PHASE markers in reversed feed order, the
\* identifiers of the output are a subsequence of the reversed identifiers
\* of the feed (strictly decreasing places of the feed), and the period of
\* an emitted event was started by a marker that stands after the event in
\* the feed.
C12_UefaReversedOrder ==
    LET starts == SelectSeq(UefaProcessedSoFar, UefaStarts)
    IN  /\ Len(uefa_periods) = Len(starts)
        /\ \A n \in 1..Len(starts) :
               /\ uefa_periods[n].id = (IF starts[n].phase = "FIRST_HALF" THEN 1 ELSE 2)
               /\ uefa_periods[n].start_timestamp
                      = Some(fromisoformat(starts[n].timestamp[1]))
        /\ \A k, m \in 1..Len(uefa_events) :
               k < m => uefa_events[k].event_id > uefa_events[m].event_id
        /\ \A k \in 1..Len(uefa_events) :
               LET i == uefa_events[k].event_id
               IN  /\ i \in 1..Len(uefa_data)
                   /\ Cardinality({j \in (i + 1)..Len(uefa_data) :
                                       UefaStarts(uefa_data[j])})
                          >= uefa_events[k].period

\* A feed of two events followed by the START_PHASE marker of their half:
\* the marker is processed first and the events come out in reverse.
C12_Witness ==
    /\ uefa_pc = "done"
    /\ Len(uefa_data) = 3
    /\ UefaStarts(uefa_data[3])
    /\ EventIds(uefa_events) = << 2, 1 >>

(***************************************************************************)
(* One call of one of the two deserializers.                               *)
(***************************************************************************)
NextEither ==
    \/ uefa_pc = "start" /\ Next
    \/ sp_pc = "start" /\ NextUefa

SpecEither == Init /\ [][NextEither]_vars

\* The record the next iteration of the UEFA loop takes.
UefaNextRecord == UefaProcessed(uefa_idx + 1)

\* C13: in both deserializers the period of an event has a start timestamp
\* when the event is built and emitted: the period of every emitted event
\* has one, and whenever the UEFA loop is about to build an event from a
\* record (a record with a timestamp that is no marker, its period in the
\* list), the period it indexes has one.
C13_PeriodStartedAtEmission ==
    /\ \A k \in 1..Len(sp_events) :
           sp_periods[sp_events[k].period].start_timestamp # None
    /\ \A k \in 1..Len(uefa_events) :
           uefa_periods[uefa_events[k].period].start_timestamp # None
    /\ ( /\ uefa_pc = "loop"
         /\ uefa_idx < Len(uefa_data)
         /\ ~UefaIsMarker(UefaNextRecord)
         /\ UefaNextRecord.timestamp # None
         /\ PeriodByPhase(uefa_periods, UefaNextRecord.phase).err = NoError )
       => uefa_periods[PeriodByPhase(uefa_periods, UefaNextRecord.phase).idx]
              .start_timestamp # None

\* The UEFA deserializer has emitted an event of the second half, whose
\* period the second of two START_PHASE markers started.
C13_Witness ==
    \E k \in 1..Len(uefa_events) :
        /\ uefa_events[k].period = 2
        /\ uefa_data[uefa_events[k].event_id].phase = "SECOND_HALF"
        /\ uefa_periods[2].id = 2
        /\ uefa_periods[2].start_timestamp = Some(5000000)

(***************************************************************************)
(* The errors of the StatsPerform deserializer.                            *)
(***************************************************************************)
\* The goal-time correction of the record, made a date string the way the
\* code does, is in neither accepted format.
SPBadGoalTime(rec) ==
    /\ rec.typeId = 16
    /\ 374 \in DOMAIN rec.qualifier
    /\ rec.qualifier[374] # None
    /\ ~SPDateOk(AppendZ(ReplaceSpaceByT(rec.qualifier[374][1])))

\* C14 (as claimed): when the call ends at a record whose timeStamp, or
\* whose goal-time correction in qualifier 374, is in neither accepted
\* format, the error raised is DeserializationError.
C14_BadDateIsDeserializationError ==
    \A i \in 1..Len(sp_feed) :
        ( /\ SPRaisedAt(i)
          /\ \/ ~SPDateOk(sp_feed[i].timeStamp)
             \/ SPDateOk(sp_feed[i].timeStamp) /\ SPBadGoalTime(sp_feed[i]) )
        => sp_error = "DeserializationError"

(***************************************************************************)
(* StatsPerform: feeds of events of every kind of the dispatch, of the     *)
(* first period and of the home team: one record of each dispatched type,  *)
(* records of types the dispatch does not name, in the table of type names *)
(* (7, 8, 77) and not in it (78, 0), and formation changes with a code in  *)
(* the table (2, 25), outside it (1, 26) and without qualifier 130.        *)
(***************************************************************************)
SPKindRecord(typeId, qualifier, include) ==
    SPRecord(typeId, 1, DateZ(10), home_team_id, FALSE, 1, "50", "50", qualifier, include)

Formation(code) == (EVENT_QUALIFIER_TEAM_FORMATION :> Some(code))

SPDispatchedEvents ==
    { SPKindRecord(t, PassEnd("50", "50"), TRUE) :
        t \in { EVENT_TYPE_PASS, EVENT_TYPE_TAKE_ON, EVENT_TYPE_FOUL_COMMITTED,
                EVENT_TYPE_BALL_OUT, EVENT_TYPE_CORNER_AWARDED,
                EVENT_TYPE_SHOT_SAVED, EVENT_TYPE_CARD, EVENT_TYPE_RECOVERY } }

SPGenericEvents ==
    { SPKindRecord(t, EmptyDict, TRUE) : t \in {7, 8, 77, 78, 0} }
    \cup { SPKindRecord(7, EmptyDict, FALSE) }

SPFormationEvents ==
    { SPKindRecord(EVENT_TYPE_FORMATION_CHANGE, Formation(code), TRUE) :
        code \in {1, 2, 25, 26} }
    \cup { SPKindRecord(EVENT_TYPE_FORMATION_CHANGE, EmptyDict, TRUE) }

SPKindRecords == SPDispatchedEvents \cup SPGenericEvents \cup SPFormationEvents

NextKinds ==
    \/ SPStart(SPMetadatas)
    \/ SPStep(SPKindRecords)
    \/ SPFinish

SpecKinds == Init /\ [][NextKinds]_vars

\* The record is a formation change of a tracked period and a known team
\* that carries a formation code.
SPFormationChange(rec) ==
    /\ rec.typeId = 40
    /\ SPTracked(rec) /\ SPKnownTeam(rec) /\ SPDateOk(rec.timeStamp)
    /\ 130 \in DOMAIN rec.qualifier
    /\ rec.qualifier[130] # None

\* C15 (as claimed): a formation change whose code in qualifier 130 is not
\* in the formation table (2..25) ends the call with DeserializationError;
\* with a code in the table the event carries the formation of the code.
C15_UnknownFormationIsDeserializationError ==
    \A i \in 1..Len(sp_feed) :
        SPFormationChange(sp_feed[i]) =>
            LET code == sp_feed[i].qualifier[130][1]
            IN  IF code \in 2..25
                THEN sp_feed[i].include =>
                         \E k \in SPEmitted(i) :
                             /\ sp_events[k].kind = "formation_change"
                             /\ code = 2 => sp_events[k].formation_type
                                                = Some("FOUR_FOUR_TWO")
                             /\ code = 25 => sp_events[k].formation_type
                                                = Some("THREE_THREE_THREE_ONE")
                ELSE SPRaisedAt(i) /\ sp_error = "DeserializationError"

\* The types the dispatch names.
SPDispatchedTypes == {1, 2, 3, 4, 5, 6, 13, 14, 15, 16, 17, 40, 49, 30, 32}

\* C16: a record of a tracked period and of the home or the away team,
\* whose type is none of the dispatched ones, raises nothing and, retained
\* by the inclusion predicate, yields one generic event labelled with the
\* name of the type in the table of type names (7 tackle, 8 interception,
\* 77 player off pitch), or "unknown" for a type that is not in the table.
C16_UndispatchedTypeIsGeneric ==
    \A i \in 1..Len(sp_feed) :
        ( /\ sp_feed[i].typeId \notin SPDispatchedTypes
          /\ SPTracked(sp_feed[i]) /\ SPKnownTeam(sp_feed[i])
          /\ SPDateOk(sp_feed[i].timeStamp) )
        => /\ ~SPRaisedAt(i)
           /\ sp_feed[i].include => Cardinality(SPEmitted(i)) = 1
           /\ \A k \in SPEmitted(i) :
                /\ sp_events[k].kind = "generic"
                /\ sp_events[k].event_name =
                       Some(CASE sp_feed[i].typeId = 7 -> "tackle"
                              [] sp_feed[i].typeId = 8 -> "interception"
                              [] sp_feed[i].typeId = 77 -> "player off pitch"
                              [] sp_feed[i].typeId \in 1..77 ->
                                     event_type_names[sp_feed[i].typeId]
                              [] OTHER -> "unknown")

\* A tackle (7) and a record of type 78 have been emitted as generic events
\* named "tackle" and "unknown".
C16_Witness ==
    \E k, m \in 1..Len(sp_events) :
        /\ sp_feed[sp_events[k].event_id].typeId = 7
        /\ sp_events[k].event_name = Some("tackle")
        /\ sp_feed[sp_events[m].event_id].typeId = 78
        /\ sp_events[m].event_name = Some("unknown")

\* C17: an emitted event has ball state DEAD exactly when its record is a
\* card (17), a ball out (5) or a corner awarded (6), ALIVE otherwise.
C17_BallStateDead ==
    \A k \in 1..Len(sp_events) :
        sp_events[k].ball_state =
            IF sp_feed[sp_events[k].event_id].typeId \in {17, 5, 6}
            THEN "DEAD" ELSE "ALIVE"

\* A card, a corner awarded and a pass have been emitted: DEAD, DEAD, ALIVE.
C17_Witness ==
    \E k, m, n \in 1..Len(sp_events) :
        /\ sp_feed[sp_events[k].event_id].typeId = 17
        /\ sp_events[k].ball_state = "DEAD"
        /\ sp_feed[sp_events[m].event_id].typeId = 6
        /\ sp_events[m].ball_state = "DEAD"
        /\ sp_feed[sp_events[n].event_id].typeId = 1
        /\ sp_events[n].ball_state = "ALIVE"

(***************************************************************************)
(* The inclusion predicate.                                                *)
(***************************************************************************)
\* Record i of the StatsPerform feed is one an event is built from: no
\* marker, of a tracked period, of the home or the away team.
SPBuilt(i) ==
    /\ ~SPIsMarker(sp_feed[i])
    /\ SPTracked(sp_feed[i])
    /\ SPDateOk(sp_feed[i].timeStamp)
    /\ SPKnownTeam(sp_feed[i])

\* The record the UEFA loop processed k-th is one an event is built from:
\* no marker, with a timestamp, of a known team or of none, the period list
\* long enough for its phase.
UefaBuilt(k) ==
    LET rec == UefaProcessed(k)
    IN  /\ ~UefaIsMarker(rec)
        /\ rec.timestamp # None
        /\ Cardinality({j \in 1..(k - 1) : UefaStarts(UefaProcessed(j))})
               >= (IF rec.phase = "FIRST_HALF" THEN 1 ELSE 2)
        /\ \/ rec.primaryActor = None
           \/ rec.primaryActor[1].team \in {None, Some(home_team_id), Some(away_team_id)}

\* C18: in both deserializers the output holds, in build order, exactly the
\* events built for which the inclusion predicate returned true: a record
\* an event is built from has one event in the output when the predicate
\* accepts the event and none when it rejects it, a rejection raises
\* nothing, and no other record has an event.
C18_OutputIsIncludedEvents ==
    /\ \A i \in 1..Len(sp_feed) :
           IF SPBuilt(i)
           THEN /\ ~SPRaisedAt(i)
                /\ Cardinality(SPEmitted(i)) = (IF sp_feed[i].include THEN 1 ELSE 0)
           ELSE SPEmitted(i) = {}
    /\ \A k, m \in 1..Len(sp_events) :
           k < m => sp_events[k].event_id < sp_events[m].event_id
    /\ \A k \in 1..uefa_idx :
           IF UefaBuilt(k)
           THEN /\ ~UefaRaisedAt(k)
                /\ Cardinality(UefaEmitted(UefaProcessed(k).id))
                       = (IF UefaProcessed(k).include THEN 1 ELSE 0)
           ELSE UefaEmitted(UefaProcessed(k).id) = {}
    /\ \A k, m \in 1..Len(uefa_events) :
           k < m => UefaPlace(uefa_events[k].event_id)
                        < UefaPlace(uefa_events[m].event_id)

\* The UEFA loop built an event the predicate rejected and, after it, one
\* the predicate accepted, which is the only event of the output.
C18_Witness ==
    \E k, m \in 1..uefa_idx :
        /\ k < m
        /\ UefaBuilt(k) /\ ~UefaProcessed(k).include
        /\ UefaBuilt(m) /\ UefaProcessed(m).include
        /\ EventIds(uefa_events) = << UefaProcessed(m).id >>

(***************************************************************************)
(* StatsPerform: records of a period that is not tracked.                  *)
(***************************************************************************)
\* C19: an iteration over a record whose periodId is the id of no tracked
\* period (and whose timeStamp parses) raises nothing, adds nothing to the
\* output and leaves the period list and the possession value as they
\* were; the loop goes on.
C19_UntrackedPeriodSkipped ==
    [][ ( /\ Len(sp_feed') = Len(sp_feed) + 1
          /\ ~SPTracked(sp_feed'[Len(sp_feed')])
          /\ SPDateOk(sp_feed'[Len(sp_feed')].timeStamp) )
        => ( /\ sp_events' = sp_events
             /\ sp_periods' = sp_periods
             /\ sp_possession_team' = sp_possession_team
             /\ sp_error' = NoError
             /\ sp_pc' = "loop" ) ]_vars

\* With one period declared, a pass of the second period by the away team
\* was skipped after a pass of the home team, the possession stayed with the
\* home team, and the pass after it was emitted.
C19_Witness ==
    /\ Len(sp_metadata) = 1
    /\ Len(sp_feed) = 3
    /\ sp_feed[2].periodId = 2
    /\ sp_feed[2].typeId = EVENT_TYPE_PASS
    /\ sp_feed[2].contestantId = away_team_id
    /\ sp_feed[3].typeId = EVENT_TYPE_FOUL_COMMITTED
    /\ EventIds(sp_events) = << 1, 3 >>
    /\ sp_events[2].ball_owning_team = Some("HOME")

(***************************************************************************)
(* UEFA: the period list.                                                  *)
(***************************************************************************)
\* C20 (as claimed): the UEFA period list holds at most one period per
\* identifier (a START_PHASE marker of an identifier that has a period sets
\* the start of that period and adds none), and the identifier of a period
\* never changes.
C20_UefaOnePeriodPerId ==
    [][ /\ \A a, b \in 1..Len(uefa_periods') :
               a # b => uefa_periods'[a].id # uefa_periods'[b].id
        /\ \A a \in 1..Len(uefa_periods) :
               /\ a <= Len(uefa_periods')
               /\ uefa_periods'[a].id = uefa_periods[a].id ]_vars

(***************************************************************************)
(* The life of a period.                                                   *)
(***************************************************************************)
\* Every period of the list `before` is in the list `after`, at its place,
\* and a start or an end it had it still has.
PeriodsMoveForward(before, after) ==
    \A a \in 1..Len(before) :
        /\ a <= Len(after)
        /\ before[a].start_timestamp # None => after[a].start_timestamp # None
        /\ before[a].end_timestamp # None => after[a].end_timestamp # None

\* The list `after` is the list `before` but for end timestamps.
OnlyEndsSet(before, after) ==
    /\ Len(after) = Len(before)
    /\ \A a \in 1..Len(before) :
           /\ after[a].id = before[a].id
           /\ after[a].start_timestamp = before[a].start_timestamp

\* C21: in both deserializers no step takes a start or an end timestamp
\* away from a period or a period from the list, and a step over an
\* end-of-period marker creates no period and changes nothing but end
\* timestamps.
C21_PeriodLifecycle ==
    [][ /\ PeriodsMoveForward(sp_periods, sp_periods')
        /\ PeriodsMoveForward(uefa_periods, uefa_periods')
        /\ ( /\ Len(sp_feed') = Len(sp_feed) + 1
             /\ sp_feed'[Len(sp_feed')].typeId = 30 )
           => OnlyEndsSet(sp_periods, sp_periods')
        /\ ( /\ uefa_idx' = uefa_idx + 1
             /\ uefa_data'[Len(uefa_data') + 1 - uefa_idx'].type = "END_PHASE" )
           => OnlyEndsSet(uefa_periods, uefa_periods') ]_vars

\* The UEFA deserializer has closed the first period and opened a second.
C21_Witness ==
    /\ Len(uefa_periods) = 2
    /\ uefa_periods[1].start_timestamp # None
    /\ uefa_periods[1].end_timestamp # None
    /\ uefa_periods[2].start_timestamp # None
    /\ uefa_periods[2].end_timestamp = None
    /\ UefaProcessed(2).type = "END_PHASE"

(***************************************************************************)
(* UEFA: records without a timestamp.                                      *)
(***************************************************************************)
\* C22: an iteration of the UEFA loop over a record without a timestamp,
\* marker or event, raises nothing, adds nothing to the output and leaves
\* the period list as it was; the loop goes on.
C22_UefaNoTimestampSkipped ==
    [][ ( /\ uefa_idx' = uefa_idx + 1
          /\ uefa_data'[Len(uefa_data') + 1 - uefa_idx'].timestamp = None )
        => ( /\ uefa_events' = uefa_events
             /\ uefa_periods' = uefa_periods
             /\ uefa_error' = NoError
             /\ uefa_pc' = "loop" ) ]_vars

\* The call is done with a feed of a START_PHASE marker without a
\* timestamp, an event and, last, a START_PHASE marker with one: one period
\* and the event in the output.
C22_Witness ==
    /\ uefa_pc = "done"
    /\ Len(uefa_data) = 3
    /\ UefaProcessed(2).type = "START_PHASE"
    /\ UefaProcessed(2).timestamp = None
    /\ Len(uefa_periods) = 1
    /\ EventIds(uefa_events) = << 1 >>

(***************************************************************************)
(* The period identifiers of the output.                                   *)
(***************************************************************************)
\* The identifiers of the periods the events reference, in output order.
PeriodIdsOf(events, periods) ==
    [k \in 1..Len(events) |-> periods[events[k].period].id]

\* The identifiers of the periods of a list, in list order.
CreatedIds(periods) == [a \in 1..Len(periods) |-> periods[a].id]

NeverDecreases(ids) == \A k, m \in 1..Len(ids) : k < m => ids[k] <= ids[m]

\* A sequence of numbers with every number equal to the one before it
\* removed.
RECURSIVE RemoveRepeats(_)
RemoveRepeats(ids) ==
    IF Len(ids) <= 1 THEN ids
    ELSE LET front == RemoveRepeats(SubSeq(ids, 1, Len(ids) - 1))
         IN  IF ids[Len(ids)] = ids[Len(ids) - 1] THEN front
             ELSE Append(front, ids[Len(ids)])

\* s is a subsequence of t.
RECURSIVE IsSubsequence(_, _)
IsSubsequence(s, t) ==
    IF s = << >> THEN TRUE
    ELSE IF t = << >> THEN FALSE
    ELSE IF Head(s) = Head(t) THEN IsSubsequence(Tail(s), Tail(t))
    ELSE IsSubsequence(s, Tail(t))

\* The period identifiers of the events never decrease and, repeats
\* removed, are a strictly increasing subsequence of those created.
PeriodIdsIncrease(events, periods) ==
    LET ids == PeriodIdsOf(events, periods)
        once == RemoveRepeats(ids)
    IN  /\ NeverDecreases(ids)
        /\ \A k, m \in 1..Len(once) : k < m => once[k] < once[m]
        /\ IsSubsequence(once, CreatedIds(periods))

\* C23 (as claimed): in both deserializers, for any feed, the period
\* identifiers of the emitted events never decrease in output order and,
\* repeats removed, are a strictly increasing subsequence of the
\* identifiers of the periods created.
C23_PeriodIdsNeverDecrease ==
    /\ PeriodIdsIncrease(sp_events, sp_periods)
    /\ PeriodIdsIncrease(uefa_events, uefa_periods)

\* The metadata lists the periods by increasing identifier and the periodId
\* of the StatsPerform records never decreases along the feed.
SPFeedByPeriod ==
    /\ \A a, b \in 1..Len(sp_metadata) :
           a < b => sp_metadata[a].id < sp_metadata[b].id
    /\ \A i, j \in 1..Len(sp_feed) :
           i < j => sp_feed[i].periodId <= sp_feed[j].periodId

\* The period of the phase of the UEFA records processed so far never
\* decreases in the order of processing.
UefaFeedByPeriod ==
    \A k, m \in 1..uefa_idx :
        k < m => PHASE_TO_PERIOD[UefaProcessed(k).phase]
                     <= PHASE_TO_PERIOD[UefaProcessed(m).phase]

\* C23 (amended): the same, for the feeds whose records come by period: in
\* which the period identifier of the records never decreases in the order
\* of processing.
C23_PeriodIdsNeverDecreaseByPeriod ==
    /\ SPFeedByPeriod => PeriodIdsIncrease(sp_events, sp_periods)
    /\ UefaFeedByPeriod => PeriodIdsIncrease(uefa_events, uefa_periods)

\* An event of the first period and after it one of the second are in the
\* output of the StatsPerform deserializer.
C23_Witness ==
    /\ SPFeedByPeriod
    /\ Len(sp_events) >= 2
    /\ PeriodIdsOf(sp_events, sp_periods)[1] = 1
    /\ PeriodIdsOf(sp_events, sp_periods)[Len(sp_events)] = 2

\* ---------------------------------------------------------------------
\* Qualifiers by kind of event: one record of each kind, once with raw
\* qualifiers that no chain knows (pass end, formation) and once with a
\* free kick (5), a head (15), a cross (2) and a red card (33) besides.
\* ---------------------------------------------------------------------
SPChainPlain == PassEnd("50", "50") @@ Formation(2)

SPChainTagged == SPChainPlain @@ Flags({5, 15, 2, 33})

SPChainRecords ==
    { SPKindRecord(t, q, TRUE) :
        t \in { EVENT_TYPE_PASS, EVENT_TYPE_OFFSIDE_PASS, EVENT_TYPE_TAKE_ON,
                EVENT_TYPE_FOUL_COMMITTED, EVENT_TYPE_BALL_OUT,
                EVENT_TYPE_SHOT_SAVED, EVENT_TYPE_CARD,
                EVENT_TYPE_FORMATION_CHANGE, EVENT_TYPE_RECOVERY, 7 },
        q \in { SPChainPlain, SPChainTagged } }

NextChains ==
    \/ SPStart(SPMetadatas)
    \/ SPStep(SPChainRecords)
    \/ SPFinish

SpecChains == Init /\ [][NextChains]_vars

\* The four chains have been evaluated on the raw codes `raw` and
\* `qualifiers` is what they attach: every chain its first code present,
\* and nothing else; a null list counts as an empty one.
ChainsEvaluated(qualifiers, raw) ==
    LET list == IF qualifiers = None THEN << >> ELSE qualifiers[1]
    IN  /\ ChainAttaches(OfClass(list, "SetPieceQualifier"), SetPieceChain, raw)
        /\ ChainAttaches(OfClass(list, "BodyPartQualifier"), BodyPartChain, raw)
        /\ ChainAttaches(OfClass(list, "PassQualifier"), PassChain, raw)
        /\ ChainAttaches(OfClass(list, "CardQualifier"), CardChain, raw)
        /\ \A i \in 1..Len(list) :
             list[i].py \in { "SetPieceQualifier", "BodyPartQualifier",
                              "PassQualifier", "CardQualifier" }

\* The types whose events are built with the list of the four chains.
SPQualifiedTypes == {1, 2, 13, 14, 15, 16, 17}

\* C24 as stated: every emitted event, whatever its type, carries what the
\* four chains attach for the raw qualifiers of its record.
C24_ChainsForEveryEvent ==
    \A k \in 1..Len(sp_events) :
        ChainsEvaluated(sp_events[k].qualifiers,
                        DOMAIN sp_feed[sp_events[k].event_id].qualifier)

\* C24 as the code has it: an emitted pass, offside pass, shot or card
\* carries what the four chains attach for the raw qualifiers of its
\* record (an empty list when no chain matches); an emitted take-on,
\* recovery, foul, ball out, formation change or generic event carries a
\* null list of qualifiers whatever its raw qualifiers.
C24_ChainsForPassShotCard ==
    \A k \in 1..Len(sp_events) :
        LET record == sp_feed[sp_events[k].event_id]
        IN  IF record.typeId \in SPQualifiedTypes
            THEN /\ sp_events[k].qualifiers # None
                 /\ ChainsEvaluated(sp_events[k].qualifiers,
                                    DOMAIN record.qualifier)
            ELSE sp_events[k].qualifiers = None

\* A card with a free kick, a head, a cross and a red card among its raw
\* qualifiers has been emitted with the four of them, and a foul with the
\* same raw qualifiers with none.
C24_Witness ==
    \E k, m \in 1..Len(sp_events) :
        /\ sp_feed[sp_events[k].event_id].typeId = EVENT_TYPE_CARD
        /\ sp_events[k].qualifiers # None
        /\ Len(sp_events[k].qualifiers[1]) = 4
        /\ sp_feed[sp_events[m].event_id].typeId = EVENT_TYPE_FOUL_COMMITTED
        /\ sp_feed[sp_events[m].event_id].qualifier = SPChainTagged
        /\ sp_events[m].qualifiers = None

\* ---------------------------------------------------------------------
\* What one record changes of the state the loop carries.
\* ---------------------------------------------------------------------
\* Period k keeps its id, and its start and its end unless `start`, `end`.
SPPeriodKept(k, start, end) ==
    /\ sp_periods'[k].id = sp_periods[k].id
    /\ start \/ sp_periods'[k].start_timestamp = sp_periods[k].start_timestamp
    /\ end \/ sp_periods'[k].end_timestamp = sp_periods[k].end_timestamp

\* C25: a record that is no marker leaves the id, the start and the end of
\* every period unchanged, and changes the possession value only to its
\* own team and only when its type is one of 1, 2, 3, 13, 14, 15, 16, 49; a
\* marker of type 32 changes nothing of the periods but the start, and one
\* of type 30 nothing but the end, of the period whose id is its periodId.
C25_RecordFrame ==
    [][ Len(sp_feed') = Len(sp_feed) + 1 =>
          LET record == sp_feed'[Len(sp_feed')]
          IN  /\ Len(sp_periods') = Len(sp_periods)
              /\ \A k \in 1..Len(sp_periods) :
                   SPPeriodKept(k,
                       /\ record.typeId = 32
                       /\ sp_periods[k].id = record.periodId,
                       /\ record.typeId = 30
                       /\ sp_periods[k].id = record.periodId)
              /\ ( ~SPIsMarker(record)
                   /\ sp_possession_team' # sp_possession_team )
                 => /\ record.typeId \in {1, 2, 3, 13, 14, 15, 16, 49}
                    /\ SPKnownTeam(record)
                    /\ sp_possession_team' = Some(SPActingTeam(record)) ]_vars

\* A start marker has moved the start of the second period and left the
\* first as the metadata has it, and a pass of the away team after it has
\* been emitted and has taken the possession.
C25_Witness ==
    /\ Len(sp_periods) = 2
    /\ sp_periods[1] = ParsePeriods(sp_metadata).periods[1]
    /\ sp_periods[2].start_timestamp
           # ParsePeriods(sp_metadata).periods[2].start_timestamp
    /\ sp_periods[2].end_timestamp
           = ParsePeriods(sp_metadata).periods[2].end_timestamp
    /\ sp_possession_team = Some("AWAY")
    /\ \E k \in 1..Len(sp_events) :
         sp_feed[sp_events[k].event_id].typeId = EVENT_TYPE_PASS

\* C26: when the call has returned, the timestamp of every emitted event
\* but a goal with qualifier 374, added to the start the returned period
\* it references holds, is the time of its record.
C26_TimestampAgainstFinalStart ==
    sp_pc = "done" =>
        \A k \in 1..Len(sp_events) :
            LET record == sp_feed[sp_events[k].event_id]
            IN  ~( /\ record.typeId = EVENT_TYPE_SHOT_GOAL
                   /\ QUALIFIER_GOAL_TIME \in DOMAIN record.qualifier )
                => sp_events[k].timestamp
                     + sp_periods[sp_events[k].period].start_timestamp[1]
                   = Micros(record.timeStamp)

\* C27: the period at place k of the list, counted from 0, has id k + 1,
\* and so every emitted event references the period whose id is 1 for a
\* record of the first half and 2 for one of the second half.
C27_UefaPositionIsId ==
    /\ \A k \in 1..Len(uefa_periods) : uefa_periods[k].id = (k - 1) + 1
    /\ \A e \in 1..Len(uefa_events) :
         uefa_periods[uefa_events[e].period].id =
             IF uefa_data[uefa_events[e].event_id].phase = "FIRST_HALF"
             THEN 1 ELSE 2

\* C28: an emitted event whose last record of a type that transfers the
\* possession, among all the records processed up to it, was rejected by
\* the inclusion predicate is owned by the team of that rejected record.
C28_RejectedTransferStillOwns ==
    \A k \in 1..Len(sp_events) :
        \A j \in 1..sp_events[k].event_id :
            ( /\ SPTransfers(j)
              /\ ~sp_feed[j].include
              /\ \A m \in (j + 1)..sp_events[k].event_id : ~SPTransfers(m) )
            => sp_events[k].ball_owning_team = Some(SPActingTeam(sp_feed[j]))

\* A pass of the home team has been emitted, a pass of the away team after
\* it rejected, and a foul after both emitted as owned by the away team,
\* which no emitted event before it belongs to.
C28_Witness ==
    \E k \in 1..Len(sp_events) :
        /\ sp_events[k].kind = "foul_committed"
        /\ sp_events[k].ball_owning_team = Some("AWAY")
        /\ k > 1
        /\ \A m \in 1..(k - 1) :
             sp_events[m].team = "HOME" /\ sp_events[m].kind = "pass"
        /\ \E j \in 1..sp_events[k].event_id :
             SPTransfers(j) /\ ~sp_feed[j].include

\* ---------------------------------------------------------------------
\* The order of the checks of one record: markers, passes and fouls of the
\* first and of the second period, by the home team, by the away team and
\* with the id of neither.
\* ---------------------------------------------------------------------
SPOrderRecords ==
    { SPRecord(t, p, DateZ(5), c, FALSE, 1, "50", "50", EmptyDict, TRUE) :
        t \in {EVENT_TYPE_START_PERIOD, EVENT_TYPE_END_PERIOD},
        p \in {1, 2}, c \in {home_team_id, "id_other"} }
    \cup
    { SPRecord(t, p, DateZ(10), c, FALSE, 1, "50", "50",
               PassEnd("50", "50"), TRUE) :
        t \in {EVENT_TYPE_PASS, EVENT_TYPE_FOUL_COMMITTED},
        p \in {1, 2}, c \in {home_team_id, away_team_id, "id_other"} }

NextOrder ==
    \/ SPStart(SPMetadatas)
    \/ SPStep(SPOrderRecords)
    \/ SPFinish

SpecOrder == Init /\ [][NextOrder]_vars

\* The period the record names is in the list and has no start.
SPNotStarted(rec) ==
    \E k \in 1..Len(sp_periods) :
        /\ sp_periods[k].id = rec.periodId
        /\ sp_periods[k].start_timestamp = None

\* C29: a marker, a record of a period that is not tracked and a record of
\* a period with no start never end the call with the failure of the
\* unknown team (the DeserializationError of the check, or the KeyError
\* that building its message raises), whatever team id they carry; and a
\* marker adds nothing to the output and leaves the possession value.
C29_TeamCheckedLast ==
    [][ Len(sp_feed') = Len(sp_feed) + 1 =>
          LET record == sp_feed'[Len(sp_feed')]
          IN  /\ ( \/ SPIsMarker(record)
                   \/ ~SPTracked(record)
                   \/ SPNotStarted(record) )
                 => sp_error' \notin {"DeserializationError", "KeyError"}
              /\ SPIsMarker(record)
                 => /\ sp_events' = sp_events
                    /\ sp_possession_team' = sp_possession_team ]_vars

\* With one period declared and after a pass of the home team, a record
\* of the second period and a marker of the first, both with the id of
\* neither team, have been processed: the call goes on, the output holds
\* the pass alone and the possession is still the home team's.
C29_Witness ==
    /\ Len(sp_metadata) = 1
    /\ Len(sp_feed) = 3
    /\ sp_feed[1].typeId = EVENT_TYPE_PASS
    /\ sp_feed[2].contestantId = "id_other"
    /\ sp_feed[2].periodId = 2
    /\ sp_feed[3].contestantId = "id_other"
    /\ SPIsMarker(sp_feed[3])
    /\ sp_feed[3].periodId = 1
    /\ sp_possession_team = Some("HOME")
    /\ sp_pc = "loop"
    /\ Len(sp_events) = 1

====
